---- MODULE Spec2Model ----
(***************************************************************************)
(* State-machine model of the RTMP stack: publisher registry and command   *)
(* handlers, publisher fan-out with its GOP cache, the per-connection      *)
(* message queue, and the chunk writer / chunk reader.                     *)
(*                                                                         *)
(* Each subsystem has its own specification (Spec, SpecCmd, SpecPub,       *)
(* SpecQueue, SpecChunk, SpecFmt, ...); the other subsystems' variables    *)
(* stay at their initial value under it.                                   *)
(***************************************************************************)
EXTENDS Integers, Sequences, FiniteSets, TLC

VARIABLES
    \* ---- publisher registry and command handlers (Spec) ----
    publishers,       \* PublisherRegistry.publishers: stream name -> PublisherInfo or None
    properties,       \* ConnectionContext.properties, per connection
    next_stream_id,   \* CreateStreamHandler.next_stream_id
    rx_alive,         \* per connection: the receiver of packet_sender still exists
    outbound,         \* per connection: packets in the packet_sender channel
    hpc,              \* per connection: where its command handler is suspended
    last_result,      \* per connection: what the last handled command returned
    reg_ok,           \* per name: register() calls that returned Ok since the last unregister
    reg_err,          \* per name: register() calls that returned Err since the last unregister
    reg_callers,      \* per name: connections that called register() since the last unregister
    \* ---- publisher fan-out and GOP cache (SpecPub) ----
    max_gops,             \* GopCache.max_gops
    current_gop,          \* GopCache.current_gop
    cached_gops,          \* GopCache.cached_gops
    total_packets,        \* GopCache.total_packets
    audio_codec_config,   \* Publisher.audio_codec_config (payload or None)
    video_codec_config,   \* Publisher.video_codec_config (payload or None)
    metadata_packet,      \* Publisher.metadata_packet (packet or None)
    subscribers,          \* Publisher.subscribers
    chan,                 \* per subscriber: packets in its mpsc channel, each with
                          \* the ingested packet it stems from and the path it took
    rx_open,              \* per subscriber: its Receiver has not been dropped
    ingested,             \* packets handed to process_audio/video/metadata so far
    pub_pc,               \* where the ingest call in progress stands
    cur_pkt,              \* the packet of the ingest call in progress
    dist_i,               \* distribute_packet: index of the next subscriber
    failed,               \* distribute_packet: ids whose send failed
    spc,                  \* per subscriber: where its add_subscriber call stands
    gop_todo,             \* per subscriber: cached packets still to send
    cfg_origin,           \* which ingested packet set each codec config
    \* ---- per-connection message queue (SpecQueue) ----
    q_chan,           \* per connection: PriorityPackets in the queue's mpsc channel
    current_size,     \* per connection: MessageQueue.current_size
    pop_item,         \* per connection: the packet a pop has received but not yet returned
    reader_pc,        \* per connection: the read-loop task is running or has stopped
    conn_state,       \* per connection: Connection.state
    pushed,           \* per connection: packets the read loop has handed to push
    \* ---- chunk writer and chunk reader (SpecChunk, SpecFmt) ----
    prev_headers,     \* ChunkWriter.prev_headers: chunk stream id -> header
    chunk_size_out,   \* ChunkWriter.chunk_size_out
    chunk_streams,    \* ChunkReader.chunk_streams: chunk stream id -> context
    chunk_size_in,    \* ChunkReader.chunk_size_in
    wire,             \* what the writer wrote and the reader has not consumed whole
    rpos,             \* bytes of the first message in wire already consumed
    writer_pc,        \* the writing task: ready or panicked
    reader_st,        \* the read loop: running or failed
    overflow_checks,  \* the build panics on integer overflow (debug) or wraps (release)
    written,          \* the packets written, each with the base and the bytes it got
    read_out,         \* the packets read_chunk returned
    sending,          \* chunk stream id -> the message a peer has sent in part
    \* ---- handshake and life of one connection (SpecHandshake) ----
    c0c1,             \* the C0+C1 the client sent, as parsed
    c2,               \* the C2 the client sent, as parsed
    s1_sent,          \* the S1 of the S0+S1+S2 written to the socket
    s1_check,         \* the S1 of the S0S1S2 kept "for validation"
    handshake_state,  \* server_handshake's local HandshakeState
    hs_pc,            \* server_handshake: c0c1, c2, ok or err
    c_state,          \* Connection.state
    tasks,            \* the read, write and process tasks: none, running or done
    ps_pc,            \* process_server: handshake, select, or returned
    task_pc,          \* where the read and the process loop are in their iteration
    shutdown_ch,      \* messages in the shutdown channel (capacity 1)
    rx_lock,          \* who holds the write lock of shutdown_rx
    closes,           \* calls of Connection::close so far
    machine,          \* a HandshakeState driven by arbitrary events
    events,           \* the events given to machine.transition
    \* ---- accept loop of the server and its sessions (SpecServer, SpecUnpublish) ----
    connections,         \* RtmpServer.connections: ids in the table
    ip_counts,           \* ServerContext.ip_counts: ip -> count, 0 when absent
    connection_counter,  \* ServerContext.connection_counter
    accept_pc,           \* where the accept loop of listen stands
    socket,              \* the remote ip of the socket just accepted, 0 when none
    conn_ip,             \* per connection id: the ip its spawned task captured
    conn_task,           \* per connection id: none, running, removed or done
    sockets,             \* sockets accepted so far
    dropped,             \* sockets dropped by the limit checks so far
    player_pc,           \* per subscriber: where its Player::next_packet call stands
    \* ---- packets a command handler sends (SpecConnect, SpecPlay) ----
    send_todo,  \* per connection: packets the handler in progress has still to send
    send_then,  \* per connection: what that handler returns once they are sent
    context_chunk_size_out,  \* per connection: chunk_size_out of its handler context
    handler_log,\* per connection: commands handled, each with the packets sent for it
    \* ---- AMF0 encoder and decoder (SpecAmf) ----
    amf_value,    \* the Amf0Value handed to the encoder
    amf_asc,      \* whether its HashMaps iterate by ascending key
    amf_bytes,    \* Amf0Encoder.buffer after encode
    amf_decoded,  \* what Amf0Decoder::decode returned and where its cursor stands
    amf_pc,       \* value, encoded or decoded
    \* ---- ServerConfig and ClientConfig builders (SpecConfig) ----
    builder_kind,    \* which builder is in use, server or client
    builder_config,  \* the config field of the builder
    build_result,    \* what build() returned, or building
    \* ---- MessageDispatcher (SpecDispatch) ----
    handlers,          \* MessageDispatcher.handlers: message type -> handlers, in registration order
    command_handlers,  \* MessageDispatcher.command_handlers: command name -> handler, 0 when absent
    default_handler,   \* MessageDispatcher.default_handler, 0 when None
    last_dispatch      \* the last dispatch call: its packet, the handlers invoked and what it returned

regVars == <<publishers, properties, next_stream_id, rx_alive, outbound, hpc,
             last_result, reg_ok, reg_err, reg_callers>>

\* Option::None, as a record so that it compares with the records it stands in for
None == [tag |-> "None"]

pubVars == <<max_gops, current_gop, cached_gops, total_packets, audio_codec_config,
             video_codec_config, metadata_packet, subscribers, chan, rx_open,
             ingested, pub_pc, cur_pkt, dist_i, failed, spc, gop_todo, cfg_origin>>

queueVars == <<q_chan, current_size, pop_item, reader_pc, conn_state, pushed>>

chunkVars == <<prev_headers, chunk_size_out, chunk_streams, chunk_size_in, wire, rpos,
               writer_pc, reader_st, overflow_checks, written, read_out, sending>>

hsVars == <<c0c1, c2, s1_sent, s1_check, handshake_state, hs_pc>>
lifeVars == <<c_state, tasks, ps_pc, task_pc, shutdown_ch, rx_lock, closes>>
connVars == <<hsVars, lifeVars, machine, events>>
srvVars == <<connections, ip_counts, connection_counter, accept_pc, socket, conn_ip,
             conn_task, sockets, dropped, player_pc>>
sendVars == <<send_todo, send_then, handler_log, context_chunk_size_out>>
amfVars == <<amf_value, amf_asc, amf_bytes, amf_decoded, amf_pc>>
cfgVars == <<builder_kind, builder_config, build_result>>
dispVars == <<handlers, command_handlers, default_handler, last_dispatch>>

\* what the actions of one subsystem leave alone
notReg == <<pubVars, queueVars, chunkVars, connVars, srvVars, sendVars, amfVars, cfgVars, dispVars>>
notPub == <<regVars, queueVars, chunkVars, connVars, srvVars, sendVars, amfVars, cfgVars, dispVars>>
notQueue == <<regVars, pubVars, chunkVars, connVars, srvVars, sendVars, amfVars, cfgVars, dispVars>>
notChunk == <<regVars, pubVars, queueVars, connVars, srvVars, sendVars, amfVars, cfgVars, dispVars>>
notConn == <<regVars, pubVars, queueVars, chunkVars, srvVars, sendVars, amfVars, cfgVars, dispVars>>
notSrv == <<regVars, pubVars, queueVars, chunkVars, connVars, sendVars, amfVars, cfgVars, dispVars>>
notSend == <<regVars, pubVars, queueVars, chunkVars, connVars, srvVars, amfVars, cfgVars, dispVars>>
notHandler == <<pubVars, queueVars, chunkVars, connVars, srvVars, amfVars, cfgVars, dispVars>>
notPlayer == <<regVars, queueVars, chunkVars, connVars, sendVars, amfVars, cfgVars, dispVars>>
notAmf == <<regVars, pubVars, queueVars, chunkVars, connVars, srvVars, sendVars, cfgVars, dispVars>>
notCfg == <<regVars, pubVars, queueVars, chunkVars, connVars, srvVars, sendVars, amfVars, dispVars>>
notDisp == <<regVars, pubVars, queueVars, chunkVars, connVars, srvVars, sendVars, amfVars, cfgVars>>

\* ------------------------------------------------------------------------
\* Bounds
\* ------------------------------------------------------------------------
NumConns == 2
NumNames == 2
MaxCalls == 2
MaxStreamId == 2
OutCap == 1

Conns == 1..NumConns
Names == 1..NumNames

\* ------------------------------------------------------------------------
\* Publisher registry (server/registry.rs)
\* ------------------------------------------------------------------------
PublisherInfo(conn, name, sid) ==
    [connection_id |-> conn, stream_name |-> name, stream_id |-> sid,
     subscriber_count |-> 0]

contains_key(pubs, name) == pubs[name] # None

is_publishing(name) == contains_key(publishers, name)

\* register with the contains_key check dropped: the insert overwrites
register_result_nocheck(pubs, name, conn, sid) ==
    [ok |-> TRUE, pubs |-> [pubs EXCEPT ![name] = PublisherInfo(conn, name, sid)]]

\* PublisherRegistry::register, under the write lock: Err when the name is
\* present, otherwise insert and Ok
register_result(pubs, name, conn, sid) ==
    IF contains_key(pubs, name)
    THEN [ok |-> FALSE, pubs |-> pubs]
    ELSE [ok |-> TRUE, pubs |-> [pubs EXCEPT ![name] = PublisherInfo(conn, name, sid)]]

\* PublisherRegistry::unregister: remove, Err when absent
unregister_result(pubs, name) ==
    [ok |-> contains_key(pubs, name), pubs |-> [pubs EXCEPT ![name] = None]]

\* ConnectionContext::get_publisher_registry always answers None
get_publisher_registry(c) == None

NoResult == [cmd |-> "none"]

\* a property, or a field of a command object, that is not there
Absent == "absent"

RegInit ==
    /\ publishers = [n \in Names |-> None]
    /\ properties = [c \in Conns |-> [stream_id |-> 0, stream_name |-> 0,
                                      publishing |-> FALSE, playing |-> FALSE,
                                      app |-> Absent, tc_url |-> Absent,
                                      flash_ver |-> Absent]]
    /\ next_stream_id = 1
    /\ rx_alive = [c \in Conns |-> TRUE]
    /\ outbound = [c \in Conns |-> <<>>]
    /\ hpc = [c \in Conns |-> "idle"]
    /\ last_result = [c \in Conns |-> NoResult]
    /\ reg_ok = [n \in Names |-> 0]
    /\ reg_err = [n \in Names |-> 0]
    /\ reg_callers = [n \in Names |-> {}]

\* A caller invokes registry.register(name, conn, sid)
Register(c, n, sid) ==
    /\ reg_ok[n] + reg_err[n] < MaxCalls
    /\ LET r == register_result(publishers, n, c, sid) IN
        /\ publishers' = r.pubs
        /\ reg_ok' = [reg_ok EXCEPT ![n] = @ + (IF r.ok THEN 1 ELSE 0)]
        /\ reg_err' = [reg_err EXCEPT ![n] = @ + (IF r.ok THEN 0 ELSE 1)]
        /\ reg_callers' = [reg_callers EXCEPT ![n] = @ \cup {c}]
    /\ UNCHANGED <<properties, next_stream_id, rx_alive, outbound, hpc, last_result>>
    /\ UNCHANGED notReg

\* A caller invokes registry.unregister(name)
Unregister(n) ==
    /\ publishers' = unregister_result(publishers, n).pubs
    /\ reg_ok' = [reg_ok EXCEPT ![n] = 0]
    /\ reg_err' = [reg_err EXCEPT ![n] = 0]
    /\ reg_callers' = [reg_callers EXCEPT ![n] = {}]
    /\ UNCHANGED <<properties, next_stream_id, rx_alive, outbound, hpc, last_result>>
    /\ UNCHANGED notReg

\* ------------------------------------------------------------------------
\* Command handlers (handlers/create_stream.rs, handlers/publish.rs)
\* ------------------------------------------------------------------------
Ok(cmd, name, was, code, before, after) ==
    [cmd |-> cmd, kind |-> "Ok", name |-> name, was_registered |-> was,
     code |-> code, entry_before |-> before, entry_after |-> after]

Err(cmd, name, was, code, before, after) ==
    [cmd |-> cmd, kind |-> "Err", name |-> name, was_registered |-> was,
     code |-> code, entry_before |-> before, entry_after |-> after]

\* CreateStreamHandler::handle: allocate the next id, store it, answer _result
HandleCreateStream(c) ==
    /\ hpc[c] = "idle"
    /\ next_stream_id <= MaxStreamId
    /\ properties' = [properties EXCEPT ![c].stream_id = next_stream_id]
    /\ next_stream_id' = next_stream_id + 1
    /\ last_result' = [last_result EXCEPT
                         ![c] = Ok("createStream", 0, FALSE, "_result", None, None)]
    /\ UNCHANGED <<publishers, rx_alive, outbound, hpc, reg_ok, reg_err, reg_callers>>
    /\ UNCHANGED notReg

\* PublishHandler::validate_publish: consults the registry only when the
\* context hands one out
validate_publish(c, n) ==
    IF get_publisher_registry(c) # None THEN ~is_publishing(n) ELSE TRUE

StreamBegin(sid) == [kind |-> "StreamBegin", stream_id |-> sid]

\* ConnectionContext::send_packet: Err when the receiver is gone
send_fails(c) == ~rx_alive[c]
send_has_room(c) == Len(outbound[c]) < OutCap

\* PublishHandler::handle up to the send of StreamBegin
HandlePublish(c, n) ==
    /\ hpc[c] = "idle"
    /\ LET sid == properties[c].stream_id
           was == is_publishing(n)
           before == publishers[n]
           reg == IF get_publisher_registry(c) # None
                  THEN register_result(publishers, n, c, sid)
                  ELSE [ok |-> TRUE, pubs |-> publishers]
       IN
       IF sid = 0 THEN
           /\ last_result' = [last_result EXCEPT
                 ![c] = Err("publish", n, was, "No stream ID", before, before)]
           /\ UNCHANGED <<publishers, properties, outbound, hpc>>
       ELSE IF ~validate_publish(c, n) \/ ~reg.ok THEN
           /\ last_result' = [last_result EXCEPT
                 ![c] = Err("publish", n, was, "already being published", before, before)]
           /\ UNCHANGED <<publishers, properties, outbound, hpc>>
       ELSE
           /\ publishers' = reg.pubs
           /\ properties' = [properties EXCEPT ![c].publishing = TRUE,
                                               ![c].stream_name = n]
           /\ IF send_fails(c) THEN
                  /\ last_result' = [last_result EXCEPT
                        ![c] = Err("publish", n, was, "Failed to send packet",
                                   before, reg.pubs[n])]
                  /\ UNCHANGED <<outbound, hpc>>
              ELSE IF send_has_room(c) THEN
                  /\ outbound' = [outbound EXCEPT ![c] = Append(@, StreamBegin(sid))]
                  /\ last_result' = [last_result EXCEPT
                        ![c] = Ok("publish", n, was, "NetStream.Publish.Start",
                                  before, reg.pubs[n])]
                  /\ UNCHANGED hpc
              ELSE
                  /\ hpc' = [hpc EXCEPT ![c] = "publish_send"]
                  /\ last_result' = [last_result EXCEPT
                        ![c] = [cmd |-> "pending", kind |-> "pending", name |-> n,
                                was_registered |-> was, code |-> "",
                                entry_before |-> before, entry_after |-> reg.pubs[n]]]
                  /\ UNCHANGED outbound
    /\ UNCHANGED <<next_stream_id, rx_alive, reg_ok, reg_err, reg_callers>>
    /\ UNCHANGED notReg

\* PublishHandler::handle resumes once its send into the full channel completes
PublishSendResume(c) ==
    /\ hpc[c] = "publish_send"
    /\ send_fails(c) \/ send_has_room(c)
    /\ hpc' = [hpc EXCEPT ![c] = "idle"]
    /\ LET r == last_result[c] IN
       IF send_fails(c) THEN
           /\ last_result' = [last_result EXCEPT
                 ![c] = Err("publish", r.name, r.was_registered, "Failed to send packet",
                            r.entry_before, r.entry_after)]
           /\ UNCHANGED outbound
       ELSE
           /\ outbound' = [outbound EXCEPT
                 ![c] = Append(@, StreamBegin(properties[c].stream_id))]
           /\ last_result' = [last_result EXCEPT
                 ![c] = Ok("publish", r.name, r.was_registered, "NetStream.Publish.Start",
                           r.entry_before, r.entry_after)]
    /\ UNCHANGED <<publishers, properties, next_stream_id, rx_alive, reg_ok, reg_err,
                   reg_callers>>
    /\ UNCHANGED notReg

\* The owner of the receiving end takes one packet
Drain(c) ==
    /\ rx_alive[c]
    /\ outbound[c] # <<>>
    /\ outbound' = [outbound EXCEPT ![c] = Tail(@)]
    /\ UNCHANGED <<publishers, properties, next_stream_id, rx_alive, hpc, last_result,
                   reg_ok, reg_err, reg_callers>>
    /\ UNCHANGED notReg

\* The receiving end is dropped (server.rs drops packet_rx when
\* handle_connection returns)
DropRx(c) ==
    /\ rx_alive[c]
    /\ rx_alive' = [rx_alive EXCEPT ![c] = FALSE]
    /\ outbound' = [outbound EXCEPT ![c] = <<>>]
    /\ UNCHANGED <<publishers, properties, next_stream_id, hpc, last_result,
                   reg_ok, reg_err, reg_callers>>
    /\ UNCHANGED notReg

RegNext ==
    \/ \E c \in Conns, n \in Names, sid \in 1..MaxStreamId : Register(c, n, sid)
    \/ \E n \in Names : Unregister(n)

CmdNext ==
    \/ \E c \in Conns, n \in Names : Register(c, n, 1)
    \/ \E n \in Names : Unregister(n)
    \/ \E c \in Conns : HandleCreateStream(c)
    \/ \E c \in Conns, n \in Names : HandlePublish(c, n)
    \/ \E c \in Conns : PublishSendResume(c)
    \/ \E c \in Conns : Drain(c)
    \/ \E c \in Conns : DropRx(c)

\* ------------------------------------------------------------------------
\* Packets (protocol/packet.rs, protocol/constants.rs)
\* ------------------------------------------------------------------------
MSG_TYPE_AUDIO == 8
MSG_TYPE_VIDEO == 9
MSG_TYPE_DATA_AMF0 == 18
CHUNK_STREAM_AUDIO == 4
CHUNK_STREAM_VIDEO == 6
CHUNK_STREAM_DATA == 8

RtmpHeader(ts, len, type, msid, csid) ==
    [timestamp |-> ts, message_length |-> len, message_type |-> type,
     message_stream_id |-> msid, chunk_stream_id |-> csid]

RtmpPacket(header, payload) == [header |-> header, payload |-> payload]

make_audio_packet(data, ts, sid) ==
    RtmpPacket(RtmpHeader(ts, Len(data), MSG_TYPE_AUDIO, sid, CHUNK_STREAM_AUDIO), data)

make_video_packet(data, ts, sid) ==
    RtmpPacket(RtmpHeader(ts, Len(data), MSG_TYPE_VIDEO, sid, CHUNK_STREAM_VIDEO), data)

make_data_packet(data, ts, sid) ==
    RtmpPacket(RtmpHeader(ts, Len(data), MSG_TYPE_DATA_AMF0, sid, CHUNK_STREAM_DATA), data)

\* ------------------------------------------------------------------------
\* GOP cache (stream/gop_cache.rs), as functions of its three fields
\* ------------------------------------------------------------------------
GopState(cur, cached, total) == [current_gop |-> cur, cached_gops |-> cached,
                                 total_packets |-> total]

RECURSIVE limit_cache(_, _, _)
\* the while loop of finish_current_gop: pop_front while over max_gops
limit_cache(cached, total, max) ==
    IF Len(cached) > max
    THEN limit_cache(Tail(cached), total - Len(Head(cached)), max)
    ELSE [cached |-> cached, total |-> total]

\* GopCache::finish_current_gop
finish_current_gop(g, max) ==
    IF g.current_gop = <<>> THEN g
    ELSE LET l == limit_cache(Append(g.cached_gops, g.current_gop), g.total_packets, max)
         IN GopState(<<>>, l.cached, l.total)

\* GopCache::add_keyframe
add_keyframe(g, max, packet) ==
    LET f == IF g.current_gop # <<>> THEN finish_current_gop(g, max) ELSE g
    IN GopState(Append(f.current_gop, packet), f.cached_gops, f.total_packets + 1)

\* add_frame without the test for a GOP in progress
add_frame_always(g, packet) ==
    GopState(Append(g.current_gop, packet), g.cached_gops, g.total_packets + 1)

\* GopCache::add_frame: frames before the first keyframe are ignored
add_frame(g, packet) ==
    IF g.current_gop # <<>>
    THEN GopState(Append(g.current_gop, packet), g.cached_gops, g.total_packets + 1)
    ELSE g

RECURSIVE Flatten(_)
Flatten(ss) == IF ss = <<>> THEN <<>> ELSE Head(ss) \o Flatten(Tail(ss))

\* GopCache::get_gop: the completed GOPs, then the GOP in progress
get_gop(g) == Flatten(g.cached_gops) \o g.current_gop

\* GopCache::gop_count
gop_count(g) == Len(g.cached_gops) + (IF g.current_gop = <<>> THEN 0 ELSE 1)

TheCache == GopState(current_gop, cached_gops, total_packets)

\* ------------------------------------------------------------------------
\* Publisher (stream/publisher.rs)
\* ------------------------------------------------------------------------
MaxIngest == 2
MaxGops == 1
SubChanCap == 2
PubStreamId == 1

\* two players subscribe to the stream
Subs == {1, 2}
\* the message stream id each subscriber connection plays on
SubStreamId(s) == 6 + s

\* first two payload bytes of the frames the publisher is fed
AvcSeqHeader == <<23, 0>>     \* 0x17 0x00: key frame, AVC, sequence header
KeyFrame == <<23, 1>>         \* 0x17 0x01: key frame, AVC, NALU
InterFrame == <<39, 1>>       \* 0x27 0x01: inter frame, AVC, NALU
AacSeqHeader == <<175, 0>>    \* 0xAF 0x00: AAC, sequence header
AacRaw == <<175, 1>>          \* 0xAF 0x01: AAC, raw
MetaPayload == <<2, 0>>       \* an AMF0 data message that decodes

VideoPayloads == {AvcSeqHeader, KeyFrame, InterFrame}
AudioPayloads == {AacSeqHeader, AacRaw}

\* is_keyframe: frame type (high nibble of byte 0) is 1
is_keyframe(data) == IF Len(data) < 2 THEN FALSE ELSE (data[1] \div 16) % 16 = 1

\* is_aac_sequence_header: sound format 10 and AAC packet type 0
is_aac_sequence_header(data) ==
    IF Len(data) < 2 THEN FALSE ELSE (data[1] \div 16) % 16 = 10 /\ data[2] = 0

\* is_avc_sequence_header: codec id (low nibble) 7 and AVC packet type 0
is_avc_sequence_header(data) ==
    IF Len(data) < 2 THEN FALSE ELSE data[1] % 16 = 7 /\ data[2] = 0

\* the re-header that forgets to set the subscriber's stream id
rehead_keep(p, sid) == p

\* packet.clone() with header.message_stream_id = the subscriber's stream id
rehead(p, sid) == [p EXCEPT !.header.message_stream_id = sid]

Entry(p, origin, via) == [pkt |-> p, origin |-> origin, via |-> via]

PubInit(N) ==
    /\ max_gops = N
    /\ current_gop = <<>>
    /\ cached_gops = <<>>
    /\ total_packets = 0
    /\ audio_codec_config = None
    /\ video_codec_config = None
    /\ metadata_packet = None
    /\ subscribers = <<>>
    /\ chan = [s \in Subs |-> <<>>]
    /\ rx_open = [s \in Subs |-> TRUE]
    /\ ingested = <<>>
    /\ pub_pc = "idle"
    /\ cur_pkt = None
    /\ dist_i = 0
    /\ failed = <<>>
    /\ spc = [s \in Subs |-> "new"]
    /\ gop_todo = [s \in Subs |-> <<>>]
    /\ cfg_origin = [audio |-> 0, video |-> 0]

\* The next packet the publishing connection hands over: its timestamp is
\* its position in the stream, so the first packet has timestamp 0
NextTs == Len(ingested)
Origin(p) == p.header.timestamp + 1

\* mpsc::Sender::send on a bounded channel: Err when the receiver is gone,
\* otherwise completes once there is room
send_ready(s) == ~rx_open[s] \/ Len(chan[s]) < SubChanCap
send_err(s) == ~rx_open[s]

\* chan after one send of p to s
Sent(s, p, origin, via) ==
    chan' = [chan EXCEPT ![s] = IF send_err(s) THEN @ ELSE Append(@, Entry(p, origin, via))]

gopVs == <<current_gop, cached_gops, total_packets>>
cfgVs == <<audio_codec_config, video_codec_config, metadata_packet, cfg_origin>>
distVs == <<dist_i, failed>>
joinVs == <<spc, gop_todo>>
chanVs == <<chan>>

\* send_initial_packets of s holds the GOP cache read lock while it sends
gop_read_locked == \E s \in Subs : spc[s] = "gopsend" /\ gop_todo[s] # <<>>
\* distribute_packet holds the subscriber list read lock while it sends
subscribers_read_locked == pub_pc = "dist"
\* process_metadata keeps the metadata_packet write guard until it returns
metadata_write_locked == pub_pc # "idle" /\ cur_pkt.header.message_type = MSG_TYPE_DATA_AMF0
\* send_initial_packets keeps the read guard of the value it replays while its
\* send waits for room in the channel
metadata_read_locked ==
    \E s \in Subs : spc[s] = "new" /\ metadata_packet # None /\ ~send_ready(s)
audio_config_read_locked ==
    \E s \in Subs : spc[s] = "aac" /\ audio_codec_config # None /\ ~send_ready(s)
video_config_read_locked ==
    \E s \in Subs : spc[s] = "avc" /\ video_codec_config # None /\ ~send_ready(s)

\* process_video, first part: remember an AVC sequence header
IngestVideo(data) ==
    /\ pub_pc = "idle"
    /\ Len(ingested) < MaxIngest
    /\ is_avc_sequence_header(data) => ~video_config_read_locked
    /\ LET p == make_video_packet(data, NextTs, PubStreamId) IN
        /\ ingested' = Append(ingested, p)
        /\ cur_pkt' = p
        /\ IF is_avc_sequence_header(data)
           THEN /\ video_codec_config' = data
                /\ cfg_origin' = [cfg_origin EXCEPT !.video = Origin(p)]
           ELSE UNCHANGED <<video_codec_config, cfg_origin>>
    /\ pub_pc' = "gop"
    /\ UNCHANGED <<max_gops, gopVs, audio_codec_config, metadata_packet, subscribers,
                   rx_open, distVs, joinVs, chanVs>>
    /\ UNCHANGED notPub

\* process_video, second part: the GOP cache, under its write lock
GopAdd ==
    /\ pub_pc = "gop"
    /\ ~gop_read_locked
    /\ LET g == IF is_keyframe(cur_pkt.payload)
                THEN add_keyframe(TheCache, max_gops, cur_pkt)
                ELSE add_frame(TheCache, cur_pkt)
       IN /\ current_gop' = g.current_gop
          /\ cached_gops' = g.cached_gops
          /\ total_packets' = g.total_packets
    /\ pub_pc' = "dist_start"
    /\ UNCHANGED <<max_gops, cfgVs, subscribers, rx_open, ingested, cur_pkt, distVs,
                   joinVs, chanVs>>
    /\ UNCHANGED notPub

\* process_audio up to distribute_packet: remember an AAC sequence header
IngestAudio(data) ==
    /\ pub_pc = "idle"
    /\ Len(ingested) < MaxIngest
    /\ is_aac_sequence_header(data) => ~audio_config_read_locked
    /\ LET p == make_audio_packet(data, NextTs, PubStreamId) IN
        /\ ingested' = Append(ingested, p)
        /\ cur_pkt' = p
        /\ IF is_aac_sequence_header(data)
           THEN /\ audio_codec_config' = data
                /\ cfg_origin' = [cfg_origin EXCEPT !.audio = Origin(p)]
           ELSE UNCHANGED <<audio_codec_config, cfg_origin>>
    /\ pub_pc' = "dist_start"
    /\ UNCHANGED <<max_gops, gopVs, video_codec_config, metadata_packet, subscribers,
                   rx_open, distVs, joinVs, chanVs>>
    /\ UNCHANGED notPub

\* process_metadata up to distribute_packet: store the packet
IngestMetadata ==
    /\ pub_pc = "idle"
    /\ Len(ingested) < MaxIngest
    /\ ~metadata_read_locked
    /\ LET p == make_data_packet(MetaPayload, NextTs, PubStreamId) IN
        /\ ingested' = Append(ingested, p)
        /\ cur_pkt' = p
        /\ metadata_packet' = p
    /\ pub_pc' = "dist_start"
    /\ UNCHANGED <<max_gops, gopVs, audio_codec_config, video_codec_config, cfg_origin,
                   subscribers, rx_open, distVs, joinVs, chanVs>>
    /\ UNCHANGED notPub

\* subscribers.retain(|s| s.id != id) for every failed id
retain_not_failed(subs, ids) ==
    SelectSeq(subs, LAMBDA h : \A k \in 1..Len(ids) : h.id # ids[k])

\* distribute_packet takes the read lock on the subscriber list; with no
\* subscriber it returns at once
DistStart ==
    /\ pub_pc = "dist_start"
    /\ pub_pc' = IF subscribers = <<>> THEN "idle" ELSE "dist"
    /\ dist_i' = IF subscribers = <<>> THEN 0 ELSE 1
    /\ failed' = <<>>
    /\ UNCHANGED <<max_gops, gopVs, cfgVs, subscribers, rx_open, ingested, cur_pkt,
                   joinVs, chanVs>>
    /\ UNCHANGED notPub

\* distribute_packet: subscriber.sender.send(p).await for the next subscriber;
\* after the last one the failed subscribers are removed and the call returns
DistSend ==
    /\ pub_pc = "dist"
    /\ dist_i <= Len(subscribers)
    /\ LET sub == subscribers[dist_i]
           f == IF send_err(sub.id) THEN Append(failed, sub.id) ELSE failed
       IN
        /\ send_ready(sub.id)
        /\ Sent(sub.id, rehead(cur_pkt, sub.stream_id), Origin(cur_pkt), "live")
        /\ IF dist_i < Len(subscribers)
           THEN /\ failed' = f
                /\ dist_i' = dist_i + 1
                /\ UNCHANGED <<subscribers, pub_pc>>
           ELSE /\ subscribers' = IF f # <<>> THEN retain_not_failed(subscribers, f)
                                  ELSE subscribers
                /\ failed' = <<>>
                /\ dist_i' = 0
                /\ pub_pc' = "idle"
    /\ UNCHANGED <<max_gops, gopVs, cfgVs, rx_open, ingested, cur_pkt, joinVs>>
    /\ UNCHANGED notPub

\* add_subscriber / send_initial_packets: the cached metadata packet
AddSubMeta(s) ==
    /\ spc[s] = "new"
    /\ \A t \in Subs : t < s => spc[t] # "new"
    /\ ~metadata_write_locked
    /\ metadata_packet # None => send_ready(s)
    /\ IF metadata_packet # None
       THEN Sent(s, rehead(metadata_packet, SubStreamId(s)), Origin(metadata_packet), "meta")
       ELSE UNCHANGED chanVs
    /\ spc' = [spc EXCEPT ![s] = "aac"]
    /\ UNCHANGED <<max_gops, gopVs, cfgVs, subscribers, rx_open, ingested, pub_pc,
                   cur_pkt, distVs, gop_todo>>
    /\ UNCHANGED notPub

\* send_initial_packets: the AAC sequence header, rebuilt with timestamp 0
AddSubAac(s) ==
    /\ spc[s] = "aac"
    /\ audio_codec_config # None => send_ready(s)
    /\ IF audio_codec_config # None
       THEN Sent(s, make_audio_packet(audio_codec_config, 0, SubStreamId(s)),
                 cfg_origin.audio, "aac")
       ELSE UNCHANGED chanVs
    /\ spc' = [spc EXCEPT ![s] = "avc"]
    /\ UNCHANGED <<max_gops, gopVs, cfgVs, subscribers, rx_open, ingested, pub_pc,
                   cur_pkt, distVs, gop_todo>>
    /\ UNCHANGED notPub

\* send_initial_packets: the AVC sequence header, rebuilt with timestamp 0
AddSubAvc(s) ==
    /\ spc[s] = "avc"
    /\ video_codec_config # None => send_ready(s)
    /\ IF video_codec_config # None
       THEN Sent(s, make_video_packet(video_codec_config, 0, SubStreamId(s)),
                 cfg_origin.video, "avc")
       ELSE UNCHANGED chanVs
    /\ spc' = [spc EXCEPT ![s] = "gop"]
    /\ UNCHANGED <<max_gops, gopVs, cfgVs, subscribers, rx_open, ingested, pub_pc,
                   cur_pkt, distVs, gop_todo>>
    /\ UNCHANGED notPub

RECURSIVE Reheaded(_, _)
Reheaded(ps, sid) ==
    IF ps = <<>> THEN <<>> ELSE <<rehead(Head(ps), sid)>> \o Reheaded(Tail(ps), sid)

RECURSIVE Entries(_, _)
Entries(ps, via) ==
    IF ps = <<>> THEN <<>>
    ELSE <<Entry(Head(ps), Origin(Head(ps)), via)>> \o Entries(Tail(ps), via)

\* send_initial_packets: take the GOP cache read lock, call get_gop and send
\* the cached packets one by one; the sends that find the channel full wait,
\* with the lock held, for a receiver that add_subscriber has not returned yet
AddSubGop(s) ==
    /\ spc[s] = "gop"
    /\ LET all == Reheaded(get_gop(TheCache), SubStreamId(s))
           room == SubChanCap - Len(chan[s])
           n == IF Len(all) <= room THEN Len(all) ELSE room
           now == SubSeq(all, 1, n)
       IN
        /\ chan' = [chan EXCEPT ![s] = @ \o Entries(now, "gop")]
        /\ gop_todo' = [gop_todo EXCEPT ![s] = SubSeq(all, n + 1, Len(all))]
    /\ spc' = [spc EXCEPT ![s] = "gopsend"]
    /\ UNCHANGED <<max_gops, gopVs, cfgVs, subscribers, rx_open, ingested, pub_pc,
                   cur_pkt, distVs>>
    /\ UNCHANGED notPub

\* add_subscriber: push the handle under the write lock and return the receiver
AddSubPush(s) ==
    /\ spc[s] = "gopsend"
    /\ gop_todo[s] = <<>>
    /\ ~subscribers_read_locked
    /\ subscribers' = Append(subscribers, [id |-> s, stream_id |-> SubStreamId(s)])
    /\ spc' = [spc EXCEPT ![s] = "joined"]
    /\ UNCHANGED <<max_gops, gopVs, cfgVs, rx_open, ingested, pub_pc, cur_pkt, distVs,
                   gop_todo, chanVs>>
    /\ UNCHANGED notPub

\* The player takes one packet from the receiver add_subscriber returned
SubRecv(s) ==
    /\ spc[s] = "joined"
    /\ rx_open[s]
    /\ chan[s] # <<>>
    /\ chan' = [chan EXCEPT ![s] = Tail(@)]
    /\ UNCHANGED <<max_gops, gopVs, cfgVs, subscribers, rx_open, ingested, pub_pc,
                   cur_pkt, distVs, joinVs>>
    /\ UNCHANGED notPub

\* The player drops its receiver
SubDropReceiver(s) ==
    /\ spc[s] = "joined"
    /\ rx_open[s]
    /\ rx_open' = [rx_open EXCEPT ![s] = FALSE]
    /\ chan' = [chan EXCEPT ![s] = <<>>]
    /\ UNCHANGED <<max_gops, gopVs, cfgVs, subscribers, ingested, pub_pc, cur_pkt,
                   distVs, joinVs>>
    /\ UNCHANGED notPub

PubNext ==
    \/ \E d \in VideoPayloads : IngestVideo(d)
    \/ GopAdd
    \/ \E d \in AudioPayloads : IngestAudio(d)
    \/ IngestMetadata
    \/ DistStart
    \/ DistSend
    \/ \E s \in Subs : AddSubMeta(s)
    \/ \E s \in Subs : AddSubAac(s)
    \/ \E s \in Subs : AddSubAvc(s)
    \/ \E s \in Subs : AddSubGop(s)
    \/ \E s \in Subs : AddSubPush(s)
    \/ \E s \in Subs : SubRecv(s)
    \/ \E s \in Subs : SubDropReceiver(s)

\* ---- the GOP cache called on its own ----
MaxCacheCalls == 5

\* video payloads handed to the cache: the three above and a payload too
\* short for is_keyframe to look at
CachePayloads == VideoPayloads \cup {<<23>>}

\* GopCache::clear
clear(g) == GopState(<<>>, <<>>, 0)

\* the GOP cache part of process_video for one packet: add_keyframe when
\* is_keyframe, add_frame otherwise
CacheVideo(data) ==
    /\ Len(ingested) < MaxCacheCalls
    /\ LET p == make_video_packet(data, NextTs, PubStreamId)
           g == IF is_keyframe(data) THEN add_keyframe(TheCache, max_gops, p)
                ELSE add_frame(TheCache, p)
       IN /\ ingested' = Append(ingested, p)
          /\ current_gop' = g.current_gop
          /\ cached_gops' = g.cached_gops
          /\ total_packets' = g.total_packets
    /\ UNCHANGED <<max_gops, cfgVs, subscribers, rx_open, pub_pc, cur_pkt, distVs,
                   joinVs, chanVs>>
    /\ UNCHANGED notPub

\* a call of GopCache::clear
CacheClear ==
    /\ current_gop' = clear(TheCache).current_gop
    /\ cached_gops' = clear(TheCache).cached_gops
    /\ total_packets' = clear(TheCache).total_packets
    /\ UNCHANGED <<max_gops, cfgVs, subscribers, rx_open, ingested, pub_pc, cur_pkt,
                   distVs, joinVs, chanVs>>
    /\ UNCHANGED notPub

CacheNext ==
    \/ \E d \in CachePayloads : CacheVideo(d)
    \/ CacheClear

\* ------------------------------------------------------------------------
\* Message queue of a connection (message/queue.rs, connection/connection.rs)
\* ------------------------------------------------------------------------
QueueMax == 2
MaxPush == 3

\* two connections, each with its own queue and its own tasks
QueueConns == {1, 2}

MSG_TYPE_SET_CHUNK_SIZE == 1
MSG_TYPE_ABORT == 2
MSG_TYPE_ACK == 3
MSG_TYPE_WINDOW_ACK == 5
MSG_TYPE_SET_PEER_BW == 6
MSG_TYPE_DATA_AMF3 == 15
MSG_TYPE_COMMAND_AMF3 == 17
MSG_TYPE_COMMAND_AMF0 == 20
CHUNK_STREAM_PROTOCOL == 2

\* MessageQueue.max_size, the argument of MessageQueue::new
max_size == QueueMax

\* MessageQueue::get_priority
get_priority(packet) ==
    LET msg_type == packet.header.message_type IN
    IF msg_type \in {MSG_TYPE_SET_CHUNK_SIZE, MSG_TYPE_ABORT, MSG_TYPE_ACK,
                     MSG_TYPE_WINDOW_ACK, MSG_TYPE_SET_PEER_BW} THEN 10
    ELSE IF msg_type \in {MSG_TYPE_COMMAND_AMF0, MSG_TYPE_COMMAND_AMF3} THEN 8
    ELSE IF msg_type \in {MSG_TYPE_DATA_AMF0, MSG_TYPE_DATA_AMF3} THEN 5
    ELSE IF msg_type = MSG_TYPE_AUDIO THEN 3
    ELSE IF msg_type = MSG_TYPE_VIDEO THEN 2
    ELSE 1

PriorityPacket(packet) == [packet |-> packet, priority |-> get_priority(packet)]

\* the packets the read loop completes: video, audio and a control message,
\* the n-th of a connection with timestamp n
QueuePackets(n) ==
    { make_video_packet(<<>>, n, PubStreamId),
      make_audio_packet(<<>>, n, PubStreamId),
      RtmpPacket(RtmpHeader(n, 0, MSG_TYPE_SET_CHUNK_SIZE, 0, CHUNK_STREAM_PROTOCOL), <<>>) }

\* push's test with the bound off by one
push_full_gt(size) == size > max_size

\* push: *size >= self.max_size
push_full(size) == size >= max_size

saturating_sub(a, b) == IF a >= b THEN a - b ELSE 0

QueueInit ==
    /\ q_chan = [c \in QueueConns |-> <<>>]
    /\ current_size = [c \in QueueConns |-> 0]
    /\ pop_item = [c \in QueueConns |-> None]
    /\ reader_pc = [c \in QueueConns |-> "running"]
    /\ conn_state = [c \in QueueConns |-> "Connected"]
    /\ pushed = [c \in QueueConns |-> 0]

\* The read loop has a complete packet and calls message_queue.push(packet)
\* under the current_size write lock; an Err leaves the loop through `?` and
\* the task ends. The send has room whenever the size test passed.
QueuePush(c, packet) ==
    /\ reader_pc[c] = "running"
    /\ pushed[c] < MaxPush
    /\ pushed' = [pushed EXCEPT ![c] = @ + 1]
    /\ IF push_full(current_size[c])
       THEN /\ reader_pc' = [reader_pc EXCEPT ![c] = "stopped"]
            /\ UNCHANGED <<q_chan, current_size>>
       ELSE /\ Len(q_chan[c]) < max_size
            /\ q_chan' = [q_chan EXCEPT ![c] = Append(@, PriorityPacket(packet))]
            /\ current_size' = [current_size EXCEPT ![c] = @ + 1]
            /\ UNCHANGED reader_pc
    /\ UNCHANGED <<pop_item, conn_state>>
    /\ UNCHANGED notQueue

\* pop / pop_timeout, first part: under the receiver lock take the packet at
\* the head of the channel
QueuePopRecv(c) ==
    /\ pop_item[c] = None
    /\ q_chan[c] # <<>>
    /\ pop_item' = [pop_item EXCEPT ![c] = Head(q_chan[c])]
    /\ q_chan' = [q_chan EXCEPT ![c] = Tail(@)]
    /\ UNCHANGED <<current_size, reader_pc, conn_state, pushed>>
    /\ UNCHANGED notQueue

\* pop / pop_timeout, second part: take the current_size lock, count the
\* packet out and return it
QueuePopReturn(c) ==
    /\ pop_item[c] # None
    /\ current_size' = [current_size EXCEPT ![c] = saturating_sub(@, 1)]
    /\ pop_item' = [pop_item EXCEPT ![c] = None]
    /\ UNCHANGED <<q_chan, reader_pc, conn_state, pushed>>
    /\ UNCHANGED notQueue

\* process_server: select! returns as soon as one task handle completes (the
\* write loop task returns Ok at once) and the state becomes Closed; the read
\* and process tasks are not aborted
ProcessServerReturn(c) ==
    /\ conn_state[c] = "Connected"
    /\ conn_state' = [conn_state EXCEPT ![c] = "Closed"]
    /\ UNCHANGED <<q_chan, current_size, pop_item, reader_pc, pushed>>
    /\ UNCHANGED notQueue

QueueNext ==
    \/ \E c \in QueueConns : \E packet \in QueuePackets(pushed[c]) : QueuePush(c, packet)
    \/ \E c \in QueueConns : QueuePopRecv(c)
    \/ \E c \in QueueConns : QueuePopReturn(c)
    \/ \E c \in QueueConns : ProcessServerReturn(c)

\* ------------------------------------------------------------------------
\* Chunk writer and chunk reader (chunk/writer.rs, chunk/reader.rs,
\* chunk/stream.rs)
\* ------------------------------------------------------------------------
MaxWrites == 2

\* u32 values: one at or above 2^31 is held as the value minus 2^32, so that
\* every u32 fits the integers of the checker; I32Max is 2^31 - 1
I32Max == 2147483647

\* the 24-bit field value that announces an extended timestamp
EXT_TIMESTAMP == 16777215

\* u32 comparison `v >= 0xFFFFFF`
ge_ext(v) == v < 0 \/ v >= EXT_TIMESTAMP

\* a - b on u32 operands below 2^31, wrapping (a release build)
wrapping_sub(a, b) == a - b

\* a.wrapping_add(b) on u32
wrapping_add(a, b) ==
    IF a >= 0 /\ b >= 0
    THEN IF a > I32Max - b THEN ((a - I32Max) - 1) + ((b - I32Max) - 1) ELSE a + b
    ELSE IF a < 0 /\ b < 0
    THEN LET x == (a + I32Max) + 1
             y == (b + I32Max) + 1
         IN IF x > I32Max - y THEN a + b ELSE x + y
    ELSE a + b

\* the low 31 bits of a u32
low31(v) == IF v >= 0 THEN v ELSE (v + I32Max) + 1

\* u32::to_be_bytes
to_be_bytes(v) ==
    LET w == low31(v) IN
    << (w \div 16777216) + (IF v < 0 THEN 128 ELSE 0), (w \div 65536) % 256,
       (w \div 256) % 256, w % 256 >>

\* u32::from_be_bytes
from_be_bytes(b) ==
    LET w == (b[1] % 128) * 16777216 + b[2] * 65536 + b[3] * 256 + b[4] IN
    IF b[1] >= 128 THEN (w - I32Max) - 1 ELSE w

\* u32::to_le_bytes and u32::from_le_bytes
Reverse4(b) == <<b[4], b[3], b[2], b[1]>>
to_le_bytes(v) == Reverse4(to_be_bytes(v))
from_le_bytes(b) == from_be_bytes(Reverse4(b))

\* the three bytes `(v >> 16) as u8, (v >> 8) as u8, v as u8` of a u32
low3_bytes(v) == LET w == low31(v) IN <<(w \div 65536) % 256, (w \div 256) % 256, w % 256>>

\* payloads are kept as pieces [seed, off, len]: len bytes of the byte
\* sequence in which byte i is (seed + i) % 256, starting at byte off
DataPiece(seed, off, len) == [k |-> "data", seed |-> seed, off |-> off, len |-> len]
PayloadOf(seed, len) == IF len = 0 THEN <<>> ELSE <<DataPiece(seed, 0, len)>>

RECURSIVE payload_len(_)
\* payload.len()
payload_len(pieces) ==
    IF pieces = <<>> THEN 0 ELSE Head(pieces).len + payload_len(Tail(pieces))

\* ---- ChunkWriter ----
\* encode_basic_header
encode_basic_header(fmt, cs_id) ==
    IF cs_id <= 63 THEN <<fmt * 64 + cs_id>>
    ELSE IF cs_id <= 319 THEN <<fmt * 64, cs_id - 64>>
    ELSE <<fmt * 64 + 1, (cs_id - 64) % 256, ((cs_id - 64) \div 256) % 256>>

\* the 3-byte timestamp field: FF FF FF when the value is 0xFFFFFF or more
timestamp_field(v) == IF ge_ext(v) THEN <<255, 255, 255>> ELSE low3_bytes(v)
extended_field(v) == IF ge_ext(v) THEN to_be_bytes(v) ELSE <<>>

\* encode_type0_header
encode_type0_header(packet) ==
    timestamp_field(packet.header.timestamp)
        \o low3_bytes(payload_len(packet.payload))
        \o <<packet.header.message_type>>
        \o to_le_bytes(packet.header.message_stream_id)
        \o extended_field(packet.header.timestamp)

\* encode_type1_header
encode_type1_header(timestamp_delta, packet) ==
    timestamp_field(timestamp_delta)
        \o low3_bytes(payload_len(packet.payload))
        \o <<packet.header.message_type>>
        \o extended_field(timestamp_delta)

\* encode_type2_header
encode_type2_header(timestamp_delta) ==
    timestamp_field(timestamp_delta) \o extended_field(timestamp_delta)

HeaderBytes(fmt, bytes) == [fmt |-> fmt, bytes |-> bytes, panic |-> FALSE]
\* `packet.header.timestamp - prev.timestamp` overflows: a build with overflow
\* checks panics there
SubPanics(checks, a, b) == checks /\ a < b
Panic == [fmt |-> 0, bytes |-> <<>>, panic |-> TRUE]

\* get_header_bytes without the message type comparison
get_header_bytes_notype(prevs, packet, checks) ==
    LET h == packet.header
        cs_id == h.chunk_stream_id
    IN IF cs_id \in DOMAIN prevs
       THEN LET prev == prevs[cs_id] IN
            IF /\ prev.message_stream_id = h.message_stream_id
               /\ prev.message_length = h.message_length
            THEN IF h.timestamp = prev.timestamp THEN HeaderBytes(3, <<>>)
                 ELSE IF SubPanics(checks, h.timestamp, prev.timestamp) THEN Panic
                 ELSE HeaderBytes(2, encode_type2_header(
                                         wrapping_sub(h.timestamp, prev.timestamp)))
            ELSE IF prev.message_stream_id = h.message_stream_id
            THEN IF SubPanics(checks, h.timestamp, prev.timestamp) THEN Panic
                 ELSE HeaderBytes(1, encode_type1_header(
                                         wrapping_sub(h.timestamp, prev.timestamp), packet))
            ELSE HeaderBytes(0, encode_type0_header(packet))
       ELSE HeaderBytes(0, encode_type0_header(packet))

\* get_header_bytes: the fmt of the first chunk and its message header
get_header_bytes(prevs, packet, checks) ==
    LET h == packet.header
        cs_id == h.chunk_stream_id
    IN IF cs_id \in DOMAIN prevs
       THEN LET prev == prevs[cs_id] IN
            IF /\ prev.message_stream_id = h.message_stream_id
               /\ prev.message_type = h.message_type
               /\ prev.message_length = h.message_length
            THEN IF h.timestamp = prev.timestamp THEN HeaderBytes(3, <<>>)
                 ELSE IF SubPanics(checks, h.timestamp, prev.timestamp) THEN Panic
                 ELSE HeaderBytes(2, encode_type2_header(
                                         wrapping_sub(h.timestamp, prev.timestamp)))
            ELSE IF prev.message_stream_id = h.message_stream_id
            THEN IF SubPanics(checks, h.timestamp, prev.timestamp) THEN Panic
                 ELSE HeaderBytes(1, encode_type1_header(
                                         wrapping_sub(h.timestamp, prev.timestamp), packet))
            ELSE HeaderBytes(0, encode_type0_header(packet))
       ELSE HeaderBytes(0, encode_type0_header(packet))

\* What create_chunks emits for a one-piece payload, without spelling out the
\* payload bytes: the first chunk's basic and message header, the payload cut
\* every csz bytes, and before each further cut the Type 3 basic header
WireMsg(hdr, cont, seed, len, csz) ==
    [hdr |-> hdr, cont |-> cont, seed |-> seed, len |-> len, csz |-> csz]

\* create_chunks; with a chunk size of 0 the division that counts the chunks
\* panics
create_chunks(prevs, packet, csz, checks) ==
    LET cs_id == packet.header.chunk_stream_id
        hb == get_header_bytes(prevs, packet, checks)
        seed == IF packet.payload = <<>> THEN 0 ELSE packet.payload[1].seed
    IN [panic |-> hb.panic \/ csz = 0,
        msg |-> WireMsg(encode_basic_header(hb.fmt, cs_id) \o hb.bytes,
                        encode_basic_header(3, cs_id),
                        seed, payload_len(packet.payload), csz)]

\* ---- the byte stream between writer and reader ----
\* continuation chunks of a message
NumCont(m) == IF m.len = 0 THEN 0 ELSE (m.len - 1) \div m.csz
WireLen(m) == Len(m.hdr) + m.len + Len(m.cont) * NumCont(m)

\* byte i (from 0) of what create_chunks emitted
ByteAt(m, i) ==
    IF i < Len(m.hdr) THEN m.hdr[i + 1]
    ELSE LET j == i - Len(m.hdr)
             period == m.csz + Len(m.cont)
             q == j \div period
             r == j % period
         IN IF r < m.csz THEN (m.seed + q * m.csz + r) % 256 ELSE m.cont[r - m.csz + 1]

RECURSIVE TotalLen(_)
TotalLen(w) == IF w = <<>> THEN 0 ELSE WireLen(Head(w)) + TotalLen(Tail(w))

RECURSIVE WireByte(_, _)
WireByte(w, p) ==
    IF w = <<>> THEN 0
    ELSE IF p < WireLen(Head(w)) THEN ByteAt(Head(w), p)
    ELSE WireByte(Tail(w), p - WireLen(Head(w)))

\* read_exact of n bytes at position p
Bytes(w, p, n) == [i \in 1..n |-> WireByte(w, p + i - 1)]

RECURSIVE PieceAt(_, _, _)
\* read_exact of the n bytes of chunk data at position p: a piece of one
\* payload when they lie inside one chunk of it, else the raw stream bytes
PieceAt(w, p, n) ==
    IF w = <<>> THEN DataPiece(0, 0, 0)
    ELSE IF p >= WireLen(Head(w)) THEN PieceAt(Tail(w), p - WireLen(Head(w)), n)
    ELSE LET m == Head(w)
             j == p - Len(m.hdr)
             period == m.csz + Len(m.cont)
             q == j \div period
             r == j % period
         IN IF j >= 0 /\ r < m.csz /\ r + n <= m.csz /\ q * m.csz + r + n <= m.len
            THEN DataPiece(m.seed, q * m.csz + r, n)
            ELSE [k |-> "raw", src |-> m, at |-> p, len |-> n]

RECURSIVE Drop(_, _)
\* the stream after p bytes were consumed
Drop(w, p) ==
    IF w # <<>> /\ p >= WireLen(Head(w)) THEN Drop(Tail(w), p - WireLen(Head(w)))
    ELSE [wire |-> w, pos |-> p]

\* message_buffer.extend_from_slice
extend_from_slice(buf, piece) ==
    IF piece.len = 0 THEN buf
    ELSE IF buf # <<>> /\ buf[Len(buf)].k = "data" /\ piece.k = "data"
            /\ buf[Len(buf)].seed = piece.seed
            /\ buf[Len(buf)].off + buf[Len(buf)].len = piece.off
    THEN [buf EXCEPT ![Len(buf)].len = @ + piece.len]
    ELSE Append(buf, piece)

\* ---- ChunkStreamContext and ChunkReader ----
\* ChunkStreamContext::new
NewContext == [prev_header |-> None, message_buffer |-> <<>>, bytes_remaining |-> 0,
               current_header |-> None]

\* ChunkStreamContext::start_message
start_message(ctx, header) ==
    [prev_header |-> header, message_buffer |-> <<>>,
     bytes_remaining |-> header.message_length, current_header |-> header]

\* add_chunk_data that does not count the bytes of a chunk that leaves the
\* message incomplete
add_chunk_data_nosub(ctx, piece) ==
    LET buf == extend_from_slice(ctx.message_buffer, piece) IN
    IF piece.len >= ctx.bytes_remaining
    THEN IF ctx.current_header # None
         THEN [ctx |-> [prev_header |-> ctx.current_header, message_buffer |-> <<>>,
                        bytes_remaining |-> 0, current_header |-> None],
               packet |-> RtmpPacket(ctx.current_header, buf)]
         ELSE [ctx |-> [ctx EXCEPT !.message_buffer = buf, !.bytes_remaining = 0],
               packet |-> None]
    ELSE [ctx |-> [ctx EXCEPT !.message_buffer = buf], packet |-> None]

\* add_chunk_data that takes a message for complete at its first chunk
add_chunk_data_first(ctx, piece) ==
    IF ctx.current_header # None
    THEN [ctx |-> [prev_header |-> ctx.current_header, message_buffer |-> <<>>,
                   bytes_remaining |-> 0, current_header |-> None],
          packet |-> RtmpPacket(ctx.current_header, extend_from_slice(ctx.message_buffer, piece))]
    ELSE [ctx |-> ctx, packet |-> None]

\* ChunkStreamContext::add_chunk_data
add_chunk_data(ctx, piece) ==
    LET buf == extend_from_slice(ctx.message_buffer, piece) IN
    IF piece.len >= ctx.bytes_remaining
    THEN IF ctx.current_header # None
         THEN [ctx |-> [prev_header |-> ctx.current_header, message_buffer |-> <<>>,
                        bytes_remaining |-> 0, current_header |-> None],
               packet |-> RtmpPacket(ctx.current_header, buf)]
         ELSE [ctx |-> [ctx EXCEPT !.message_buffer = buf, !.bytes_remaining = 0],
               packet |-> None]
    ELSE [ctx |-> [ctx EXCEPT !.message_buffer = buf, !.bytes_remaining = @ - piece.len],
          packet |-> None]

\* message header length by fmt
header_len(fmt) == CASE fmt = 0 -> 11 [] fmt = 1 -> 7 [] fmt = 2 -> 3 [] OTHER -> 0

Waiting == [status |-> "wait"]

read_chunk_ok(streams, cs_id, used, r) ==
    [status |-> "ok", used |-> used, streams |-> (cs_id :> r.ctx) @@ streams,
     packet |-> r.packet]

\* read_chunk from the chunk data on: chunk_data_size bytes are read and
\* added to the context of the chunk stream
read_chunk_data(w, pos, streams, csz, cs_id, used, context) ==
    LET chunk_data_size == IF context.bytes_remaining > csz THEN csz
                           ELSE context.bytes_remaining
    IN IF TotalLen(w) - pos < used + chunk_data_size THEN Waiting
       ELSE read_chunk_ok(streams, cs_id, used + chunk_data_size,
                add_chunk_data(context,
                    IF chunk_data_size = 0 THEN DataPiece(0, 0, 0)
                    ELSE PieceAt(w, pos + used, chunk_data_size)))

\* one context used for every chunk stream id
context_entry_shared(streams, cs_id) ==
    IF DOMAIN streams # {} THEN streams[CHOOSE c \in DOMAIN streams : TRUE]
    ELSE NewContext

\* get or create the chunk stream context
context_entry(streams, cs_id) ==
    IF cs_id \in DOMAIN streams THEN streams[cs_id] ELSE NewContext

\* read_chunk once read_message_header has returned: the context of the
\* chunk stream, a new message started on it unless one is being assembled
read_chunk_context(w, pos, streams, csz, cs_id, used, header) ==
    IF header = None THEN [status |-> "err", used |-> used]
    ELSE read_chunk_data(w, pos, streams, csz, cs_id, used,
            IF context_entry(streams, cs_id).bytes_remaining > 0
            THEN context_entry(streams, cs_id)
            ELSE start_message(context_entry(streams, cs_id), header))

\* u32::from_be_bytes([0, b[0], b[1], b[2]])
field3(hb, i) == hb[i] * 65536 + hb[i + 1] * 256 + hb[i + 2]

\* read_message_header, the header from the header bytes hb and the final
\* timestamp (delta) tsval; None for the Err of a missing previous header
read_message_header(fmt, cs_id, prev_header, hb, tsval) ==
    IF fmt = 0
    THEN RtmpHeader(tsval, field3(hb, 4), hb[7],
                    from_le_bytes(<<hb[8], hb[9], hb[10], hb[11]>>), cs_id)
    ELSE IF prev_header = None THEN None
    ELSE IF fmt = 1
    THEN RtmpHeader(wrapping_add(prev_header.timestamp, tsval), field3(hb, 4), hb[7],
                    prev_header.message_stream_id, cs_id)
    ELSE IF fmt = 2
    THEN RtmpHeader(wrapping_add(prev_header.timestamp, tsval),
                    prev_header.message_length, prev_header.message_type,
                    prev_header.message_stream_id, cs_id)
    ELSE prev_header

\* the 3-byte timestamp field announces an extended timestamp
has_extended(fmt, hb) == fmt < 3 /\ field3(hb, 1) = EXT_TIMESTAMP

\* read_chunk from the extended timestamp on; b is the basic header, hb the
\* message header bytes, prev_header what the chunk stream last carried
read_chunk_timestamp(w, pos, streams, csz, b, hb, prev_header) ==
    LET used == b.len + header_len(b.fmt) + (IF has_extended(b.fmt, hb) THEN 4 ELSE 0)
    IN IF TotalLen(w) - pos < used THEN Waiting
       ELSE read_chunk_context(w, pos, streams, csz, b.cs_id, used,
                read_message_header(b.fmt, b.cs_id, prev_header, hb,
                    IF has_extended(b.fmt, hb)
                    THEN from_be_bytes(Bytes(w, pos + used - 4, 4))
                    ELSE IF b.fmt < 3 THEN field3(hb, 1) ELSE 0))

\* read_chunk from the message header on
read_chunk_header(w, pos, streams, csz, b) ==
    IF TotalLen(w) - pos < b.len + header_len(b.fmt) THEN Waiting
    ELSE read_chunk_timestamp(w, pos, streams, csz, b,
            Bytes(w, pos + b.len, header_len(b.fmt)),
            IF b.cs_id \in DOMAIN streams THEN streams[b.cs_id].prev_header ELSE None)

\* parse_basic_header: fmt, chunk stream id and the bytes the header takes
parse_basic_header(w, pos, first_byte) ==
    [fmt |-> first_byte \div 64,
     len |-> IF first_byte % 64 = 0 THEN 2 ELSE IF first_byte % 64 = 1 THEN 3 ELSE 1,
     cs_id |-> IF first_byte % 64 = 0 THEN WireByte(w, pos + 1) + 64
               ELSE IF first_byte % 64 = 1
               THEN WireByte(w, pos + 1) + 256 * WireByte(w, pos + 2) + 64
               ELSE first_byte % 64]

\* ChunkReader::read_chunk on the stream w from position pos; "wait" when a
\* read_exact of the call has to wait for bytes not yet written
read_chunk(w, pos, streams, csz) ==
    IF TotalLen(w) - pos < 1 THEN Waiting
    ELSE read_chunk_header(w, pos, streams, csz,
            parse_basic_header(w, pos, WireByte(w, pos)))

DEFAULT_CHUNK_SIZE == 128
\* the chunk sizes writer and reader are set to
ChunkSizes == {DEFAULT_CHUNK_SIZE, 4096, 65536}

ChunkInit(csz, checks) ==
    /\ prev_headers = <<>>
    /\ chunk_size_out = csz
    /\ chunk_streams = <<>>
    /\ chunk_size_in = csz
    /\ wire = <<>>
    /\ rpos = 0
    /\ writer_pc = "ready"
    /\ reader_st = "running"
    /\ overflow_checks = checks
    /\ written = <<>>
    /\ read_out = <<>>
    /\ sending = <<>>

\* the header the writer last wrote on a chunk stream id, from the record of
\* what was written
RECURSIVE LastOn(_, _)
LastOn(ws, cs_id) ==
    IF ws = <<>> THEN None
    ELSE IF ws[Len(ws)].packet.header.chunk_stream_id = cs_id THEN ws[Len(ws)].packet.header
    ELSE LastOn(SubSeq(ws, 1, Len(ws) - 1), cs_id)

\* ChunkWriter::write_packet: create_chunks, write_all and flush, then
\* remember the header; a panic in the delta subtraction ends the writer
WritePacket(packet) ==
    /\ writer_pc = "ready"
    /\ Len(written) < MaxWrites
    /\ LET cs_id == packet.header.chunk_stream_id
           chunks == create_chunks(prev_headers, packet, chunk_size_out, overflow_checks)
       IN IF chunks.panic
          THEN /\ writer_pc' = "panicked"
               /\ UNCHANGED <<prev_headers, wire, written>>
          ELSE /\ wire' = Append(wire, chunks.msg)
               /\ prev_headers' = (cs_id :> packet.header) @@ prev_headers
               /\ written' = Append(written, [packet |-> packet,
                                              base |-> LastOn(written, cs_id),
                                              msg |-> chunks.msg])
               /\ UNCHANGED writer_pc
    /\ UNCHANGED <<chunk_size_out, chunk_streams, chunk_size_in, rpos, reader_st,
                   overflow_checks, read_out, sending>>
    /\ UNCHANGED notChunk

\* One ChunkReader::read_chunk call of the read loop; an Err leaves the loop
ReadChunk ==
    /\ reader_st = "running"
    /\ LET r == read_chunk(wire, rpos, chunk_streams, chunk_size_in) IN
        /\ r.status # "wait"
        /\ LET d == Drop(wire, rpos + r.used) IN
            /\ wire' = d.wire
            /\ rpos' = d.pos
        /\ IF r.status = "err"
           THEN /\ reader_st' = "failed"
                /\ UNCHANGED <<chunk_streams, read_out>>
           ELSE /\ chunk_streams' = r.streams
                /\ read_out' = IF r.packet = None THEN read_out
                               ELSE Append(read_out, r.packet)
                /\ UNCHANGED reader_st
    /\ UNCHANGED <<prev_headers, chunk_size_out, chunk_size_in, writer_pc,
                   overflow_checks, written, sending>>
    /\ UNCHANGED notChunk

\* message type, message stream id and chunk stream id of the packets written
HeaderKinds == { <<MSG_TYPE_AUDIO, 1, CHUNK_STREAM_AUDIO>>,
                 <<MSG_TYPE_VIDEO, 1, CHUNK_STREAM_AUDIO>>,
                 <<MSG_TYPE_AUDIO, 2, CHUNK_STREAM_AUDIO>>,
                 <<MSG_TYPE_VIDEO, 1, 70>> }
\* timestamps below, at and above 0xFFFFFF
Timestamps == {1, EXT_TIMESTAMP, EXT_TIMESTAMP + 1}
\* payload lengths around the chunk size, and around the 24-bit limit
Lengths(csz) == {1, csz - 1, csz, csz + 1, 2 * csz}
BoundaryLengths == {EXT_TIMESTAMP - 1, EXT_TIMESTAMP, EXT_TIMESTAMP + 1}

\* the n-th packet handed to the writer, its header built as
\* make_audio_packet / make_video_packet do (message_length = payload.len())
MakePacket(n, ts, kind, len) ==
    RtmpPacket(RtmpHeader(ts, len, kind[1], kind[2], kind[3]), PayloadOf(n, len))

FmtPackets(n) ==
    { MakePacket(n, ts, kind, len) :
        ts \in Timestamps, kind \in HeaderKinds, len \in {1, chunk_size_out + 1} }

RoundTripPackets(n) ==
    { MakePacket(n, ts, kind, len) :
        ts \in Timestamps, kind \in HeaderKinds, len \in Lengths(chunk_size_out) }
    \cup (IF chunk_size_out = 65536
          THEN { MakePacket(n, 1, <<MSG_TYPE_VIDEO, 1, CHUNK_STREAM_VIDEO>>, len) :
                    len \in BoundaryLengths }
          ELSE {})

\* ---- a peer that interleaves the chunks of messages on different chunk
\* streams: the chunks create_chunks lays out, sent one at a time ----
InterleavePackets(n) ==
    { MakePacket(n, ts, kind, len) :
        ts \in {1, EXT_TIMESTAMP + 1},
        kind \in { <<MSG_TYPE_AUDIO, 1, CHUNK_STREAM_AUDIO>>, <<MSG_TYPE_VIDEO, 1, 70>> },
        len \in {chunk_size_out, 2 * chunk_size_out + 1} }

\* messages begun so far
Begun == Cardinality({k \in 1..Len(written) : written[k].first})

\* the first chunk of a message: basic header, message header, and at most
\* chunk_size bytes of payload
SendFirstChunk(packet) ==
    /\ writer_pc = "ready"
    /\ Begun < MaxWrites
    /\ packet.header.chunk_stream_id \notin DOMAIN sending
    /\ LET cs_id == packet.header.chunk_stream_id
           hb == get_header_bytes(prev_headers, packet, overflow_checks)
           len == payload_len(packet.payload)
           n == IF len > chunk_size_out THEN chunk_size_out ELSE len
           chunk == WireMsg(encode_basic_header(hb.fmt, cs_id) \o hb.bytes, <<>>,
                            packet.payload[1].seed, n, chunk_size_out)
       IN /\ ~hb.panic
          /\ wire' = Append(wire, chunk)
          /\ prev_headers' = (cs_id :> packet.header) @@ prev_headers
          /\ written' = Append(written, [packet |-> packet, base |-> LastOn(written, cs_id),
                                         msg |-> chunk, first |-> TRUE])
          /\ sending' = IF len > n
                        THEN (cs_id :> [packet |-> packet, off |-> n]) @@ sending
                        ELSE sending
    /\ UNCHANGED <<chunk_size_out, chunk_streams, chunk_size_in, rpos, writer_pc, reader_st,
                   overflow_checks, read_out>>
    /\ UNCHANGED notChunk

\* a further chunk of a message sent in part: the Type 3 basic header and the
\* next chunk_size bytes of payload, or what is left of it
SendNextChunk(cs_id) ==
    /\ writer_pc = "ready"
    /\ cs_id \in DOMAIN sending
    /\ LET packet == sending[cs_id].packet
           off == sending[cs_id].off
           rem == payload_len(packet.payload) - off
           n == IF rem > chunk_size_out THEN chunk_size_out ELSE rem
           chunk == WireMsg(encode_basic_header(3, cs_id), <<>>,
                            (packet.payload[1].seed + off) % 256, n, chunk_size_out)
       IN /\ wire' = Append(wire, chunk)
          /\ written' = Append(written, [packet |-> packet, base |-> LastOn(written, cs_id),
                                         msg |-> chunk, first |-> FALSE])
          /\ sending' = IF rem > n
                        THEN [sending EXCEPT ![cs_id].off = off + n]
                        ELSE [c \in DOMAIN sending \ {cs_id} |-> sending[c]]
    /\ UNCHANGED <<prev_headers, chunk_size_out, chunk_streams, chunk_size_in, rpos,
                   writer_pc, reader_st, overflow_checks, read_out>>
    /\ UNCHANGED notChunk

\* a peer sends a chunk of Type 1, 2 or 3 on a chunk stream id on which it
\* has sent nothing before: basic header, the message header of the type,
\* one byte of payload
PeerChunk(fmt, cs_id) ==
    /\ writer_pc = "ready"
    /\ Begun < MaxWrites
    /\ cs_id \notin DOMAIN prev_headers
    /\ LET packet == MakePacket(Begun + 1, 1, <<MSG_TYPE_AUDIO, 1, cs_id>>, 1)
           header_bytes == IF fmt = 1 THEN encode_type1_header(1, packet)
                           ELSE IF fmt = 2 THEN encode_type2_header(1)
                           ELSE <<>>
           chunk == WireMsg(encode_basic_header(fmt, cs_id) \o header_bytes, <<>>,
                            packet.payload[1].seed, 1, chunk_size_out)
       IN /\ wire' = Append(wire, chunk)
          /\ written' = Append(written, [packet |-> packet, base |-> None,
                                         msg |-> chunk, first |-> TRUE])
    /\ UNCHANGED <<prev_headers, chunk_size_out, chunk_streams, chunk_size_in, rpos,
                   writer_pc, reader_st, overflow_checks, read_out, sending>>
    /\ UNCHANGED notChunk

\* the interleaving peer, which may also send chunks that lack a base
ReaderNext ==
    \/ \E packet \in InterleavePackets(Begun + 1) : SendFirstChunk(packet)
    \/ \E cs_id \in DOMAIN sending : SendNextChunk(cs_id)
    \/ \E fmt \in 1..3, cs_id \in {CHUNK_STREAM_AUDIO, CHUNK_STREAM_VIDEO, 70} :
            PeerChunk(fmt, cs_id)
    \/ ReadChunk

\* ---- chunk sizes set while packets are written and read ----
\* the sizes handed to set_chunk_size
SetSizes == {0, DEFAULT_CHUNK_SIZE - 1, DEFAULT_CHUNK_SIZE, 4096, 65537}

ChunkSizePackets(n) ==
    { MakePacket(n, 1, <<MSG_TYPE_AUDIO, 1, CHUNK_STREAM_AUDIO>>, len) :
        len \in {1, DEFAULT_CHUNK_SIZE + 1} }

\* ChunkReader::set_chunk_size
ReaderSetChunkSize(size) ==
    /\ chunk_size_in' = size
    /\ UNCHANGED <<prev_headers, chunk_size_out, chunk_streams, wire, rpos, writer_pc,
                   reader_st, overflow_checks, written, read_out, sending>>
    /\ UNCHANGED notChunk

\* ChunkWriter::set_chunk_size
WriterSetChunkSize(size) ==
    /\ chunk_size_out' = size
    /\ UNCHANGED <<prev_headers, chunk_streams, chunk_size_in, wire, rpos, writer_pc,
                   reader_st, overflow_checks, written, read_out, sending>>
    /\ UNCHANGED notChunk

ChunkSizeNext ==
    \/ \E size \in SetSizes : ReaderSetChunkSize(size)
    \/ \E size \in SetSizes : WriterSetChunkSize(size)
    \/ \E packet \in ChunkSizePackets(Len(written) + 1) : WritePacket(packet)
    \/ ReadChunk

InterleaveNext ==
    \/ \E packet \in InterleavePackets(Begun + 1) : SendFirstChunk(packet)
    \/ \E cs_id \in DOMAIN sending : SendNextChunk(cs_id)
    \/ ReadChunk

ChunkNext ==
    \/ \E packet \in RoundTripPackets(Len(written) + 1) : WritePacket(packet)
    \/ ReadChunk

FmtNext ==
    \/ \E packet \in FmtPackets(Len(written) + 1) : WritePacket(packet)
    \/ ReadChunk

\* ------------------------------------------------------------------------
\* Handshake (handshake/*.rs) and Connection::process_server
\* (connection/connection.rs)
\* ------------------------------------------------------------------------
MaxEvents == 4

RTMP_VERSION == 3
\* C0 versions a client sends
Versions == {RTMP_VERSION, 6}
\* what generate_random_bytes can return, and what current_timestamp can
\* return at the first call of server_handshake
Randoms == {1, 2}
Clock == {10, 11}
Formats == {"Simple", "Format1", "Format2"}

\* C0C1::parse and validate_digest: only the version is checked
validate_c0c1(data) == data.version = RTMP_VERSION

\* C0C1::detect_format: the FMS version bytes in the client's random data
detect_format(data) == data.format

\* S0S1S2::generate, its S1: current_timestamp and generate_random_bytes
generate(data, now, random) ==
    [s1_timestamp |-> now, s1_random |-> [bytes |-> random, digest |-> "none"]]

\* generate_s0s1s2: generate, and for a complex handshake add_digest, which
\* overwrites 32 bytes of s1_random
generate_s0s1s2(data, now, random) ==
    IF detect_format(data) = "Simple" THEN generate(data, now, random)
    ELSE [generate(data, now, random) EXCEPT !.s1_random.digest = detect_format(data)]

\* C2::create_from_s1
create_from_s1(s0s1s2) ==
    [timestamp |-> s0s1s2.s1_timestamp, random_echo |-> s0s1s2.s1_random]

\* C2::validate
validate(packet, s0s1s2) ==
    /\ packet.timestamp = s0s1s2.s1_timestamp
    /\ packet.random_echo = s0s1s2.s1_random

\* HandshakeState::transition: the state after the event, and Ok or Err
transition(state, event) ==
    IF state = "Uninitialized" /\ event = "ReceivedC0C1"
    THEN [state |-> "SentS0S1S2", ok |-> TRUE]
    ELSE IF state = "SentS0S1S2" /\ event = "ReceivedC2"
    THEN [state |-> "Done", ok |-> TRUE]
    ELSE IF event = "Error" THEN [state |-> "Failed", ok |-> FALSE]
    ELSE [state |-> state, ok |-> FALSE]

NoTasks == [read |-> "none", write |-> "none", process |-> "none"]

ConnInit ==
    /\ c0c1 = None
    /\ c2 = None
    /\ s1_sent = None
    /\ s1_check = None
    /\ handshake_state = "Uninitialized"
    /\ hs_pc = "c0c1"
    /\ c_state = "Uninitialized"
    /\ tasks = NoTasks
    /\ ps_pc = "handshake"
    /\ task_pc = [read |-> "check", process |-> "check"]
    /\ shutdown_ch = 0
    /\ rx_lock = "none"
    /\ closes = 0
    /\ machine = "Uninitialized"
    /\ events = <<>>

\* server_handshake up to the first transition: read and validate C0+C1,
\* generate and write S0+S1+S2, generate a second S0S1S2 for validation
HandshakeReadC0C1(data, now, random, now2, random2) ==
    /\ hs_pc = "c0c1"
    /\ c0c1' = data
    /\ IF validate_c0c1(data)
       THEN /\ s1_sent' = generate_s0s1s2(data, now, random)
            /\ s1_check' = generate(data, now2, random2)
            /\ handshake_state' = transition(handshake_state, "ReceivedC0C1").state
            /\ hs_pc' = IF transition(handshake_state, "ReceivedC0C1").ok THEN "c2" ELSE "err"
       ELSE /\ hs_pc' = "err"
            /\ UNCHANGED <<s1_sent, s1_check, handshake_state>>
    /\ UNCHANGED <<c2, lifeVars, machine, events>>
    /\ UNCHANGED notConn

\* server_handshake from the read of C2 on
HandshakeReadC2(packet) ==
    /\ hs_pc = "c2"
    /\ c2' = packet
    /\ IF validate(packet, s1_check)
       THEN /\ handshake_state' = transition(handshake_state, "ReceivedC2").state
            /\ hs_pc' = IF transition(handshake_state, "ReceivedC2").ok THEN "ok" ELSE "err"
       ELSE /\ hs_pc' = "err"
            /\ UNCHANGED handshake_state
    /\ UNCHANGED <<c0c1, s1_sent, s1_check, lifeVars, machine, events>>
    /\ UNCHANGED notConn

\* process_server after server_handshake returned: on Err it returns the
\* error; on Ok the state becomes Connected and the three loops are spawned
ProcessServerHandshakeDone ==
    /\ ps_pc = "handshake"
    /\ hs_pc \in {"ok", "err"}
    /\ IF hs_pc = "ok"
       THEN /\ c_state' = "Connected"
            /\ tasks' = [read |-> "running", write |-> "running", process |-> "running"]
            /\ ps_pc' = "select"
       ELSE /\ ps_pc' = "returned"
            /\ UNCHANGED <<c_state, tasks>>
    /\ UNCHANGED <<hsVars, task_pc, shutdown_ch, rx_lock, closes, machine, events>>
    /\ UNCHANGED notConn

\* transition called on a HandshakeState with any event
Transition(event) ==
    /\ Len(events) < MaxEvents
    /\ machine' = transition(machine, event).state
    /\ events' = Append(events, event)
    /\ UNCHANGED <<hsVars, lifeVars>>
    /\ UNCHANGED notConn

\* the S1 values a C2 can carry
S1Randoms == [bytes : Randoms, digest : {"none", "Format1", "Format2"}]

HandshakeNext ==
    \/ \E version \in Versions, format \in Formats, now \in Clock, random \in Randoms,
          later \in {0, 1}, random2 \in Randoms :
          HandshakeReadC0C1([version |-> version, timestamp |-> 1, format |-> format],
                            now, random, now + later, random2)
    \/ \E packet \in [timestamp : {10, 11, 12}, random_echo : S1Randoms] :
          HandshakeReadC2(packet)
    \/ ProcessServerHandshakeDone
    \/ \E event \in {"ReceivedC0C1", "ReceivedC2", "Error"} : Transition(event)

\* ---- the tasks of a connection and its shutdown channel ----
MaxCloses == 2

\* the write loop task: its body returns Ok at once
WriteLoopReturn ==
    /\ tasks.write = "running"
    /\ tasks' = [tasks EXCEPT !.write = "done"]
    /\ UNCHANGED <<hsVars, c_state, ps_pc, task_pc, shutdown_ch, rx_lock, closes,
                   machine, events>>
    /\ UNCHANGED notConn

\* the shutdown check at the top of the read loop and of the process loop:
\* take the write lock of shutdown_rx, try_recv; a message received is taken
\* out of the channel and the loop breaks
LoopCheck(t, then) ==
    /\ tasks[t] = "running"
    /\ task_pc[t] = "check"
    /\ rx_lock = "none"
    /\ IF shutdown_ch > 0
       THEN /\ shutdown_ch' = shutdown_ch - 1
            /\ tasks' = [tasks EXCEPT ![t] = "done"]
            /\ UNCHANGED task_pc
       ELSE /\ task_pc' = [task_pc EXCEPT ![t] = then]
            /\ UNCHANGED <<shutdown_ch, tasks>>
    /\ UNCHANGED <<hsVars, c_state, ps_pc, rx_lock, closes, machine, events>>
    /\ UNCHANGED notConn

\* the rest of a loop iteration. The read loop is in read_chunk until the
\* peer has sent a chunk or the read fails, then pushes; the process loop is
\* in pop_timeout for at most 100 ms, then dispatches. Ok goes back to the
\* check, an Err ends the task
LoopBody(t, at, ok) ==
    /\ tasks[t] = "running"
    /\ task_pc[t] = at
    /\ IF ok
       THEN /\ task_pc' = [task_pc EXCEPT ![t] = "check"]
            /\ UNCHANGED tasks
       ELSE /\ tasks' = [tasks EXCEPT ![t] = "done"]
            /\ UNCHANGED task_pc
    /\ UNCHANGED <<hsVars, c_state, ps_pc, shutdown_ch, rx_lock, closes, machine, events>>
    /\ UNCHANGED notConn

\* wait_shutdown, polled by select!: takes the write lock of shutdown_rx and
\* keeps it while it waits in recv
WaitShutdownLock ==
    /\ ps_pc = "select"
    /\ rx_lock = "none"
    /\ rx_lock' = "wait"
    /\ UNCHANGED <<hsVars, c_state, tasks, ps_pc, task_pc, shutdown_ch, closes,
                   machine, events>>
    /\ UNCHANGED notConn

\* select! completes on the shutdown branch: recv took the message
WaitShutdownRecv ==
    /\ ps_pc = "select"
    /\ rx_lock = "wait"
    /\ shutdown_ch > 0
    /\ shutdown_ch' = shutdown_ch - 1
    /\ rx_lock' = "none"
    /\ c_state' = "Closed"
    /\ ps_pc' = "returned"
    /\ UNCHANGED <<hsVars, tasks, task_pc, closes, machine, events>>
    /\ UNCHANGED notConn

\* select! completes on a task handle: the other branches are dropped (the
\* tasks themselves run on), the state becomes Closed, process_server returns
ProcessServerSelect ==
    /\ ps_pc = "select"
    /\ \E t \in DOMAIN tasks : tasks[t] = "done"
    /\ rx_lock' = IF rx_lock = "wait" THEN "none" ELSE rx_lock
    /\ c_state' = "Closed"
    /\ ps_pc' = "returned"
    /\ UNCHANGED <<hsVars, tasks, task_pc, shutdown_ch, closes, machine, events>>
    /\ UNCHANGED notConn

\* Connection::close: shutdown_tx.send(()).await, which waits while the
\* channel is full, then the state becomes Closed
Close ==
    /\ closes < MaxCloses
    /\ shutdown_ch < 1
    /\ shutdown_ch' = shutdown_ch + 1
    /\ closes' = closes + 1
    /\ c_state' = "Closed"
    /\ UNCHANGED <<hsVars, tasks, ps_pc, task_pc, rx_lock, machine, events>>
    /\ UNCHANGED notConn

\* ConnectionState::can_transition_to
can_transition_to(state, next) ==
    \/ state = "Uninitialized" /\ next = "Handshaking"
    \/ state = "Handshaking" /\ next = "Connected"
    \/ state = "Connected" /\ next = "Publishing"
    \/ state = "Connected" /\ next = "Playing"
    \/ state = "Publishing" /\ next = "Connected"
    \/ state = "Playing" /\ next = "Connected"
    \/ next = "Closing"
    \/ state = "Closing" /\ next = "Closed"

ConnNext ==
    \/ \E version \in Versions, now \in Clock, random \in Randoms :
          HandshakeReadC0C1([version |-> version, timestamp |-> 1, format |-> "Simple"],
                            now, random, now, random)
    \/ \E packet \in [timestamp : Clock, random_echo : S1Randoms] : HandshakeReadC2(packet)
    \/ ProcessServerHandshakeDone
    \/ WriteLoopReturn
    \/ LoopCheck("read", "io")
    \/ \E ok \in BOOLEAN : LoopBody("read", "io", ok)
    \/ LoopCheck("process", "pop")
    \/ \E ok \in BOOLEAN : LoopBody("process", "pop", ok)
    \/ WaitShutdownLock
    \/ WaitShutdownRecv
    \/ ProcessServerSelect
    \/ Close

\* ------------------------------------------------------------------------
\* Accept loop of the server (server/server.rs, server/context.rs) and the
\* sessions it carries (handlers/delete_stream.rs, stream/player.rs)
\* ------------------------------------------------------------------------
MaxAccepts == 5
max_connections == 2
max_connections_per_ip == 1

\* the remote addresses sockets come from
Ips == {1, 2}

\* the ids generate_connection_id hands out
ConnIds == 0..(MaxAccepts - 1)

ServerInit ==
    /\ connections = {}
    /\ ip_counts = [ip \in Ips |-> 0]
    /\ connection_counter = 0
    /\ accept_pc = "accept"
    /\ socket = 0
    /\ conn_ip = [c \in ConnIds |-> 0]
    /\ conn_task = [c \in ConnIds |-> "none"]
    /\ sockets = 0
    /\ dropped = 0
    /\ player_pc = [s \in Subs |-> "idle"]

\* ServerContext::can_accept_from_ip with the bound included
can_accept_from_ip_le(counts, ip) == counts[ip] <= max_connections_per_ip

\* ServerContext::can_accept_from_ip: the count of an absent ip is 0
can_accept_from_ip(counts, ip) == counts[ip] < max_connections_per_ip

\* ServerContext::increment_ip_count
increment_ip_count(counts, ip) == [counts EXCEPT ![ip] = @ + 1]

\* ServerContext::decrement_ip_count: nothing for an absent ip, the entry is
\* removed when it reaches 0
decrement_ip_count(counts, ip) ==
    IF counts[ip] = 0 THEN counts
    ELSE [counts EXCEPT ![ip] = IF @ > 0 THEN @ - 1 ELSE 0]

\* listen: listener.accept() returns a socket
ListenAccept(ip) ==
    /\ accept_pc = "accept"
    /\ sockets < MaxAccepts
    /\ socket' = ip
    /\ sockets' = sockets + 1
    /\ accept_pc' = "check_limit"
    /\ UNCHANGED <<connections, ip_counts, connection_counter, conn_ip, conn_task,
                   dropped, player_pc>>
    /\ UNCHANGED notSrv

\* listen: the connection limit, read under the table's read lock
ListenCheckLimit ==
    /\ accept_pc = "check_limit"
    /\ IF Cardinality(connections) >= max_connections
       THEN /\ dropped' = dropped + 1
            /\ socket' = 0
            /\ accept_pc' = "accept"
       ELSE /\ accept_pc' = "check_ip"
            /\ UNCHANGED <<dropped, socket>>
    /\ UNCHANGED <<connections, ip_counts, connection_counter, conn_ip, conn_task,
                   sockets, player_pc>>
    /\ UNCHANGED notSrv

\* listen: the limit of the remote ip
ListenCheckIp ==
    /\ accept_pc = "check_ip"
    /\ IF ~can_accept_from_ip(ip_counts, socket)
       THEN /\ dropped' = dropped + 1
            /\ socket' = 0
            /\ accept_pc' = "accept"
       ELSE /\ accept_pc' = "handle"
            /\ UNCHANGED <<dropped, socket>>
    /\ UNCHANGED <<connections, ip_counts, connection_counter, conn_ip, conn_task,
                   sockets, player_pc>>
    /\ UNCHANGED notSrv

\* handle_connection: a new id, a new Connection, stored in the table
HandleConnectionStore ==
    /\ accept_pc = "handle"
    /\ LET conn_id == connection_counter IN
        /\ connection_counter' = connection_counter + 1
        /\ connections' = connections \cup {conn_id}
        /\ conn_ip' = [conn_ip EXCEPT ![conn_id] = socket]
    /\ accept_pc' = "increment"
    /\ UNCHANGED <<ip_counts, socket, conn_task, sockets, dropped, player_pc>>
    /\ UNCHANGED notSrv

\* handle_connection: count the ip, spawn the connection's task, return to
\* the accept loop
HandleConnectionSpawn ==
    /\ accept_pc = "increment"
    /\ LET conn_id == connection_counter - 1 IN
        /\ ip_counts' = increment_ip_count(ip_counts, conn_ip[conn_id])
        /\ conn_task' = [conn_task EXCEPT ![conn_id] = "running"]
    /\ socket' = 0
    /\ accept_pc' = "accept"
    /\ UNCHANGED <<connections, connection_counter, conn_ip, sockets, dropped,
                   player_pc>>
    /\ UNCHANGED notSrv

\* the spawned task: process_server has returned, for whatever reason; the
\* connection is taken out of the table
ConnectionRemove(c) ==
    /\ conn_task[c] = "running"
    /\ connections' = connections \ {c}
    /\ conn_task' = [conn_task EXCEPT ![c] = "removed"]
    /\ UNCHANGED <<ip_counts, connection_counter, accept_pc, socket, conn_ip, sockets,
                   dropped, player_pc>>
    /\ UNCHANGED notSrv

\* the spawned task: the ip is counted down and the task ends
ConnectionDecrement(c) ==
    /\ conn_task[c] = "removed"
    /\ ip_counts' = decrement_ip_count(ip_counts, conn_ip[c])
    /\ conn_task' = [conn_task EXCEPT ![c] = "done"]
    /\ UNCHANGED <<connections, connection_counter, accept_pc, socket, conn_ip, sockets,
                   dropped, player_pc>>
    /\ UNCHANGED notSrv

\* a running connection registers a stream name with the registry
SessionRegister(c, n) ==
    /\ conn_task[c] = "running"
    /\ Register(c, n, 1)

AcceptNext ==
    \/ \E ip \in Ips : ListenAccept(ip)
    \/ ListenCheckLimit
    \/ ListenCheckIp
    \/ HandleConnectionStore
    \/ HandleConnectionSpawn
    \/ \E c \in ConnIds : ConnectionRemove(c)
    \/ \E c \in ConnIds : ConnectionDecrement(c)

ServerNext ==
    \/ AcceptNext
    \/ \E c \in ConnIds, n \in Names : SessionRegister(c, n)

\* DeleteStreamHandler::handle reaches registry.unregister only when the
\* connection is publishing and the context hands out a registry
delete_unregisters(c) ==
    properties[c].publishing /\ get_publisher_registry(c) # None

\* PublisherRegistry::increment_subscribers: Err when the name is absent
increment_subscribers(pubs, name) ==
    IF contains_key(pubs, name)
    THEN [ok |-> TRUE, pubs |-> [pubs EXCEPT ![name].subscriber_count = @ + 1]]
    ELSE [ok |-> FALSE, pubs |-> pubs]

\* PublisherRegistry::decrement_subscribers: saturating, Err when the name is
\* absent
decrement_subscribers(pubs, name) ==
    IF contains_key(pubs, name)
    THEN [ok |-> TRUE,
          pubs |-> [pubs EXCEPT ![name].subscriber_count = IF @ > 0 THEN @ - 1 ELSE 0]]
    ELSE [ok |-> FALSE, pubs |-> pubs]

\* DeleteStreamHandler::handle reaches registry.decrement_subscribers only
\* when the connection is playing and the context hands out a registry
delete_decrements(c) ==
    properties[c].playing /\ get_publisher_registry(c) # None

\* DeleteStreamHandler::handle: the publishing branch, then the playing
\* branch, then the stream binding; an Err of the registry ends the handler
\* where it stands
HandleDeleteStream(c, has_id) ==
    /\ hpc[c] = "idle"
    /\ LET name == properties[c].stream_name
           was == IF name = 0 THEN FALSE ELSE is_publishing(name)
           before == IF name = 0 THEN None ELSE publishers[name]
           unreg == IF name = 0 THEN [ok |-> FALSE, pubs |-> publishers]
                    ELSE unregister_result(publishers, name)
           pubs1 == IF delete_unregisters(c) THEN unreg.pubs ELSE publishers
           dec == IF name = 0 THEN [ok |-> FALSE, pubs |-> publishers]
                  ELSE decrement_subscribers(pubs1, name)
           pubs2 == IF delete_decrements(c) THEN dec.pubs ELSE pubs1
       IN
       IF ~has_id THEN
           /\ last_result' = [last_result EXCEPT
                 ![c] = Err("deleteStream", name, was, "Missing stream ID", before, before)]
           /\ UNCHANGED <<publishers, properties, reg_ok, reg_err, reg_callers>>
       ELSE IF name = 0 THEN
           /\ last_result' = [last_result EXCEPT
                 ![c] = Err("deleteStream", name, was, "No stream name", before, before)]
           /\ UNCHANGED <<publishers, properties, reg_ok, reg_err, reg_callers>>
       ELSE IF delete_unregisters(c) /\ ~unreg.ok THEN
           /\ last_result' = [last_result EXCEPT
                 ![c] = Err("deleteStream", name, was, "not found", before, before)]
           /\ UNCHANGED <<publishers, properties, reg_ok, reg_err, reg_callers>>
       ELSE
           /\ IF delete_unregisters(c)
              THEN /\ reg_ok' = [reg_ok EXCEPT ![name] = 0]
                   /\ reg_err' = [reg_err EXCEPT ![name] = 0]
                   /\ reg_callers' = [reg_callers EXCEPT ![name] = {}]
              ELSE UNCHANGED <<reg_ok, reg_err, reg_callers>>
           /\ IF delete_decrements(c) /\ ~dec.ok
              THEN /\ publishers' = pubs1
                   /\ properties' = [properties EXCEPT ![c].publishing = FALSE]
                   /\ last_result' = [last_result EXCEPT
                         ![c] = Err("deleteStream", name, was, "not found",
                                    before, pubs1[name])]
              ELSE /\ publishers' = pubs2
                   /\ properties' = [properties EXCEPT ![c].publishing = FALSE,
                                                       ![c].playing = FALSE,
                                                       ![c].stream_name = 0,
                                                       ![c].stream_id = 0]
                   /\ last_result' = [last_result EXCEPT
                         ![c] = Ok("deleteStream", name, was,
                                   IF properties[c].publishing THEN "was publishing"
                                   ELSE "",
                                   before, pubs2[name])]
    /\ UNCHANGED <<next_stream_id, rx_alive, outbound, hpc>>
    /\ UNCHANGED notReg

\* the publishing connection hands an audio packet to its Publisher
PublisherAudio(data) ==
    /\ \E c \in Conns : properties[c].publishing
    /\ IngestAudio(data)

\* Player::start on the Publisher of a stream that is being published:
\* add_subscriber begins
PlayerStart(s) ==
    /\ \E c \in Conns : properties[c].publishing
    /\ AddSubMeta(s)

\* the Publisher holds a Sender for the subscriber
has_sender(s) == \E k \in 1..Len(subscribers) : subscribers[k].id = s

\* Player::next_packet up to receiver.recv().await; start has left the state
\* Buffering
NextPacketCall(s) ==
    /\ spc[s] = "joined"
    /\ rx_open[s]
    /\ player_pc[s] = "idle"
    /\ player_pc' = [player_pc EXCEPT ![s] = "recv"]
    /\ UNCHANGED <<connections, ip_counts, connection_counter, accept_pc, socket,
                   conn_ip, conn_task, sockets, dropped>>
    /\ UNCHANGED notSrv

\* receiver.recv() completes: with the next packet, or with None once the
\* channel is empty and every Sender is gone
NextPacketReturn(s) ==
    /\ player_pc[s] = "recv"
    /\ chan[s] # <<>> \/ ~has_sender(s)
    /\ IF chan[s] # <<>>
       THEN /\ chan' = [chan EXCEPT ![s] = Tail(@)]
            /\ player_pc' = [player_pc EXCEPT ![s] = "idle"]
       ELSE /\ player_pc' = [player_pc EXCEPT ![s] = "eof"]
            /\ UNCHANGED chan
    /\ UNCHANGED <<max_gops, gopVs, cfgVs, subscribers, rx_open, ingested, pub_pc,
                   cur_pkt, distVs, joinVs>>
    /\ UNCHANGED <<connections, ip_counts, connection_counter, accept_pc, socket,
                   conn_ip, conn_task, sockets, dropped>>
    /\ UNCHANGED notPlayer

\* the connection that publishes
Publishing == 1

UnpublishNext ==
    \/ HandleCreateStream(Publishing)
    \/ \E n \in Names : HandlePublish(Publishing, n)
    \/ PublishSendResume(Publishing)
    \/ Drain(Publishing)
    \/ \E has_id \in BOOLEAN : HandleDeleteStream(Publishing, has_id)
    \/ PublisherAudio(AacRaw)
    \/ DistStart
    \/ DistSend
    \/ \E s \in Subs : PlayerStart(s)
    \/ \E s \in Subs : AddSubAac(s)
    \/ \E s \in Subs : AddSubAvc(s)
    \/ \E s \in Subs : AddSubGop(s)
    \/ \E s \in Subs : AddSubPush(s)
    \/ \E s \in Subs : NextPacketCall(s)
    \/ \E s \in Subs : NextPacketReturn(s)

\* ------------------------------------------------------------------------
\* Command handlers that send several packets (handlers/connect.rs,
\* handlers/play.rs)
\* ------------------------------------------------------------------------
MaxCommands == 2
CHUNK_STREAM_COMMAND == 3

SendInit ==
    /\ send_todo = [c \in Conns |-> <<>>]
    /\ send_then = [c \in Conns |-> None]
    /\ handler_log = [c \in Conns |-> <<>>]
    /\ context_chunk_size_out = [c \in Conns |-> DEFAULT_CHUNK_SIZE]

\* a command as the handler received it, and a packet it sent or returned
In(cmd, arg, valid) == [dir |-> "in", cmd |-> cmd, arg |-> arg, valid |-> valid]
Out(packet) == [dir |-> "out", packet |-> packet]

\* the commands a connection has handled so far
Commands(c) == {i \in 1..Len(handler_log[c]) : handler_log[c][i].dir = "in"}

\* RtmpHeader::new(0, len, message_type, 0, CHUNK_STREAM_PROTOCOL) with the
\* payload of a protocol control message
ControlPacket(message_type, size, limit_type) ==
    [message_type |-> message_type, size |-> size, limit_type |-> limit_type,
     message_stream_id |-> 0, chunk_stream_id |-> CHUNK_STREAM_PROTOCOL]

create_window_ack_packet(size) == ControlPacket(MSG_TYPE_WINDOW_ACK, size, 0)
create_peer_bandwidth_packet(size, limit_type) ==
    ControlPacket(MSG_TYPE_SET_PEER_BW, size, limit_type)
create_chunk_size_packet(size) == ControlPacket(MSG_TYPE_SET_CHUNK_SIZE, size, 0)

\* send_server_bandwidth with the chunk size sent before the peer bandwidth
send_server_bandwidth_swapped ==
    <<create_window_ack_packet(2500000), create_chunk_size_packet(4096),
      create_peer_bandwidth_packet(2500000, 2)>>

\* ConnectHandler::send_server_bandwidth: the packets it sends, in order
send_server_bandwidth ==
    <<create_window_ack_packet(2500000), create_peer_bandwidth_packet(2500000, 2),
      create_chunk_size_packet(4096)>>

\* a command message: RtmpHeader::command or RtmpHeader::data around an
\* encoded RtmpCommand
CommandPacket(name, transaction_id, code, message_type, sid, cs_id) ==
    [name |-> name, transaction_id |-> transaction_id, code |-> code,
     message_type |-> message_type, message_stream_id |-> sid,
     chunk_stream_id |-> cs_id]

\* ConnectHandler::create_connect_result in its header
create_connect_result(transaction_id) ==
    CommandPacket("_result", transaction_id, "NetConnection.Connect.Success",
                  MSG_TYPE_COMMAND_AMF0, 0, CHUNK_STREAM_COMMAND)

\* the command objects a connect can carry: no object at all, or an object
\* with or without app, tcUrl and flashVer
ConnectObjects ==
    {None} \cup [app : {Absent, "live"}, tcUrl : {Absent, "rtmp://h/live"},
                 flashVer : {Absent, "FMLE/3.0"}]
TransactionIds == {1, 2}

\* ConnectHandler::validate_connect_params
validate_connect_params(command_object) ==
    IF command_object = None THEN [ok |-> FALSE, error |-> "Missing connect parameters"]
    ELSE IF command_object.app = Absent
    THEN [ok |-> FALSE, error |-> "Missing app parameter"]
    ELSE IF command_object.tcUrl = Absent
    THEN [ok |-> FALSE, error |-> "Missing tcUrl parameter"]
    ELSE [ok |-> TRUE, app |-> command_object.app, tc_url |-> command_object.tcUrl,
          flash_ver |-> IF command_object.flashVer = Absent THEN "FMLE/3.0"
                        ELSE command_object.flashVer]

\* ConnectHandler::handle up to the first send
HandleConnect(c, transaction_id, command_object) ==
    /\ hpc[c] = "idle"
    /\ Cardinality(Commands(c)) < MaxCommands
    /\ LET params == validate_connect_params(command_object) IN
        /\ handler_log' = [handler_log EXCEPT
              ![c] = Append(@, In("connect", transaction_id, params.ok))]
        /\ IF ~params.ok THEN
               /\ last_result' = [last_result EXCEPT
                     ![c] = Err("connect", 0, FALSE, params.error, None, None)]
               /\ UNCHANGED <<properties, hpc, send_todo, send_then>>
           ELSE
               /\ properties' = [properties EXCEPT ![c].app = params.app,
                                                   ![c].tc_url = params.tc_url,
                                                   ![c].flash_ver = params.flash_ver]
               /\ send_todo' = [send_todo EXCEPT ![c] = send_server_bandwidth]
               /\ send_then' = [send_then EXCEPT
                     ![c] = create_connect_result(transaction_id)]
               /\ hpc' = [hpc EXCEPT ![c] = "sending"]
               /\ last_result' = [last_result EXCEPT
                     ![c] = [cmd |-> "pending", kind |-> "pending", name |-> 0,
                             was_registered |-> FALSE, code |-> "connect",
                             entry_before |-> None, entry_after |-> None]]
    /\ UNCHANGED <<publishers, next_stream_id, rx_alive, outbound, reg_ok, reg_err,
                   reg_callers, context_chunk_size_out>>
    /\ UNCHANGED notHandler

\* create_sample_access_packet
create_sample_access_packet(sid) ==
    CommandPacket("|RtmpSampleAccess", 0, "true, true", MSG_TYPE_DATA_AMF0, sid,
                  CHUNK_STREAM_DATA)

\* PlayHandler::create_play_status_messages
create_play_status_messages(sid) ==
    <<StreamBegin(sid),
      CommandPacket("onStatus", 0, "NetStream.Play.Reset", MSG_TYPE_COMMAND_AMF0, sid,
                    CHUNK_STREAM_COMMAND),
      CommandPacket("onStatus", 0, "NetStream.Play.Start", MSG_TYPE_COMMAND_AMF0, sid,
                    CHUNK_STREAM_COMMAND),
      create_sample_access_packet(sid),
      CommandPacket("onStatus", 0, "NetStream.Data.Start", MSG_TYPE_DATA_AMF0, sid,
                    CHUNK_STREAM_DATA)>>

\* PlayHandler::find_publisher
find_publisher(c, name) ==
    IF get_publisher_registry(c) = None
    THEN [ok |-> FALSE, error |-> "No publisher registry"]
    ELSE IF ~contains_key(publishers, name)
    THEN [ok |-> FALSE, error |-> "Stream not found"]
    ELSE [ok |-> TRUE, error |-> ""]

\* PlayHandler::handle up to the first send; name 0 stands for a play
\* without a stream name
HandlePlay(c, name) ==
    /\ hpc[c] = "idle"
    /\ Cardinality(Commands(c)) < MaxCommands
    /\ LET sid == properties[c].stream_id
           was == IF name = 0 THEN FALSE ELSE is_publishing(name)
           before == IF name = 0 THEN None ELSE publishers[name]
           found == IF name = 0 THEN [ok |-> FALSE, error |-> "Missing stream name"]
                    ELSE IF sid = 0 THEN [ok |-> FALSE, error |-> "No stream ID"]
                    ELSE find_publisher(c, name)
       IN
        /\ handler_log' = [handler_log EXCEPT ![c] = Append(@, In("play", name, was))]
        /\ IF ~found.ok THEN
               /\ last_result' = [last_result EXCEPT
                     ![c] = Err("play", name, was, found.error, before, before)]
               /\ UNCHANGED <<publishers, properties, hpc, send_todo, send_then>>
           ELSE
               /\ publishers' = increment_subscribers(publishers, name).pubs
               /\ properties' = [properties EXCEPT ![c].playing = TRUE,
                                                   ![c].stream_name = name]
               /\ send_todo' = [send_todo EXCEPT ![c] = create_play_status_messages(sid)]
               /\ send_then' = [send_then EXCEPT ![c] = None]
               /\ hpc' = [hpc EXCEPT ![c] = "sending"]
               /\ last_result' = [last_result EXCEPT
                     ![c] = [cmd |-> "pending", kind |-> "pending", name |-> name,
                             was_registered |-> was, code |-> "play",
                             entry_before |-> before,
                             entry_after |->
                                 increment_subscribers(publishers, name).pubs[name]]]
    /\ UNCHANGED <<next_stream_id, rx_alive, outbound, reg_ok, reg_err, reg_callers,
                   context_chunk_size_out>>
    /\ UNCHANGED notHandler

\* context.send_packet(msg).await? of the handler in progress: the packet
\* enters the channel, or the handler ends with Err when the receiver is gone
HandlerSend(c) ==
    /\ hpc[c] = "sending"
    /\ send_todo[c] # <<>>
    /\ send_fails(c) \/ send_has_room(c)
    /\ IF send_fails(c) THEN
           /\ last_result' = [last_result EXCEPT
                 ![c] = Err(last_result[c].code, last_result[c].name,
                            last_result[c].was_registered, "Failed to send packet",
                            last_result[c].entry_before, last_result[c].entry_after)]
           /\ send_todo' = [send_todo EXCEPT ![c] = <<>>]
           /\ send_then' = [send_then EXCEPT ![c] = None]
           /\ hpc' = [hpc EXCEPT ![c] = "idle"]
           /\ UNCHANGED <<outbound, handler_log>>
       ELSE
           /\ outbound' = [outbound EXCEPT ![c] = Append(@, Head(send_todo[c]))]
           /\ handler_log' = [handler_log EXCEPT ![c] = Append(@, Out(Head(send_todo[c])))]
           /\ send_todo' = [send_todo EXCEPT ![c] = Tail(@)]
           /\ UNCHANGED <<last_result, send_then, hpc>>
    /\ UNCHANGED <<publishers, properties, next_stream_id, rx_alive, reg_ok, reg_err,
                   reg_callers, context_chunk_size_out>>
    /\ UNCHANGED notHandler

\* the handler in progress has sent its packets: send_server_bandwidth ends
\* with set_chunk_size_out(4096), and the handler returns Ok with its
\* response, if it has one
HandlerReturn(c) ==
    /\ hpc[c] = "sending"
    /\ send_todo[c] = <<>>
    /\ hpc' = [hpc EXCEPT ![c] = "idle"]
    /\ last_result' = [last_result EXCEPT
          ![c] = Ok(last_result[c].code, last_result[c].name,
                    last_result[c].was_registered,
                    IF send_then[c] = None THEN "" ELSE send_then[c].name,
                    last_result[c].entry_before, last_result[c].entry_after)]
    /\ handler_log' = [handler_log EXCEPT
          ![c] = IF send_then[c] = None THEN @ ELSE Append(@, Out(send_then[c]))]
    /\ send_then' = [send_then EXCEPT ![c] = None]
    /\ context_chunk_size_out' =
          [context_chunk_size_out EXCEPT
              ![c] = IF last_result[c].code = "connect" THEN 4096 ELSE @]
    /\ UNCHANGED <<publishers, properties, next_stream_id, rx_alive, outbound, reg_ok,
                   reg_err, reg_callers, send_todo>>
    /\ UNCHANGED notHandler

ConnectNext ==
    \/ \E c \in Conns, t \in TransactionIds, o \in ConnectObjects : HandleConnect(c, t, o)
    \/ \E c \in Conns : HandlerSend(c)
    \/ \E c \in Conns : HandlerReturn(c)
    \/ \E c \in Conns : Drain(c)
    \/ \E c \in Conns : DropRx(c)

\* the connection's ChunkWriter (Connection::new builds it with
\* ChunkWriter::new) writes a message once the connect of the connection has
\* been answered
WriteAfterConnect(c, packet) ==
    /\ last_result[c].cmd = "connect"
    /\ last_result[c].kind = "Ok"
    /\ WritePacket(packet)

\* one connection is answered its connect, then its writer writes messages
AnnounceNext ==
    \/ \E t \in TransactionIds, o \in ConnectObjects : HandleConnect(Publishing, t, o)
    \/ HandlerSend(Publishing)
    \/ HandlerReturn(Publishing)
    \/ Drain(Publishing)
    \/ \E len \in {1, DEFAULT_CHUNK_SIZE + 1, 4096, 4097} :
          WriteAfterConnect(Publishing,
              MakePacket(Len(written) + 1, 1, <<MSG_TYPE_AUDIO, 1, CHUNK_STREAM_AUDIO>>, len))

\* one connection publishes; the others create streams and ask to play
PlayNext ==
    \/ \E n \in Names, sid \in 1..MaxStreamId : Register(Publishing, n, sid)
    \/ \E c \in Conns \ {Publishing} : HandleCreateStream(c)
    \/ \E c \in Conns \ {Publishing}, n \in Names \cup {0} : HandlePlay(c, n)

\* ------------------------------------------------------------------------
\* AMF0 encoder and decoder (amf/encoder.rs, amf/decoder.rs)
\* ------------------------------------------------------------------------
MaxArrayLen == 2
markers_NUMBER == 0
markers_BOOLEAN == 1
markers_STRING == 2
markers_OBJECT == 3
markers_NULL == 5
markers_UNDEFINED == 6
markers_ECMA_ARRAY == 8
markers_OBJECT_END == 9
markers_STRICT_ARRAY == 10
markers_DATE == 11
markers_LONG_STRING == 12

\* strings are their UTF-8 bytes, f64 numbers their eight big-endian bytes
Strs == {<<>>, <<97>>}
F64s == {<<0, 0, 0, 0, 0, 0, 0, 0>>, <<63, 240, 0, 0, 0, 0, 0, 0>>}
Timezones == {0, -1}

Number(n) == [type |-> "Number", n |-> n]
Boolean(b) == [type |-> "Boolean", b |-> b]
String(s) == [type |-> "String", s |-> s]
LongString(s) == [type |-> "LongString", s |-> s]
Date(n, tz) == [type |-> "Date", n |-> n, tz |-> tz]
Null == [type |-> "Null"]
Undefined == [type |-> "Undefined"]
Object(map) == [type |-> "Object", map |-> map]
EcmaArray(map) == [type |-> "EcmaArray", map |-> map]
Array(items) == [type |-> "Array", items |-> items]

\* HashMap<String, Amf0Value>: a function from its keys
Maps(values) == UNION {[keys -> values] : keys \in SUBSET Strs}
Vecs(values) == UNION {[1..n -> values] : n \in 0..MaxArrayLen}
insert(map, key, value) ==
    [k \in (DOMAIN map) \cup {key} |-> IF k = key THEN value ELSE map[k]]

Scalars ==
    {Number(n) : n \in F64s} \cup {Boolean(b) : b \in BOOLEAN}
        \cup {String(s) : s \in Strs} \cup {LongString(s) : s \in Strs}
        \cup {Date(n, tz) : n \in F64s, tz \in Timezones} \cup {Null, Undefined}

\* the values nested inside a container of the values encoded
Nested ==
    {Number(<<63, 240, 0, 0, 0, 0, 0, 0>>), Number(<<0, 0, 0, 0, 0, 0, 0, 0>>),
     Boolean(TRUE), String(<<97>>), Null,
     Object(<<>>), Object(insert(<<>>, <<97>>, Boolean(TRUE))),
     Object(insert(<<>>, <<>>, Null)),
     EcmaArray(insert(<<>>, <<97>>, String(<<97>>))), Array(<<Null>>)}

Amf0Values ==
    Scalars \cup {Object(map) : map \in Maps(Nested)}
        \cup {EcmaArray(map) : map \in Maps(Nested)}
        \cup {Array(items) : items \in Vecs(Nested)}

u16_be(n) == <<(n \div 256) % 256, n % 256>>
u32_be(n) == <<(n \div 16777216) % 256, (n \div 65536) % 256, (n \div 256) % 256, n % 256>>
i16_be(n) == u16_be((n + 65536) % 65536)

\* the order in which a HashMap hands out its keys: one of the orders of
\* its key set, fixed for a run
RECURSIVE iter(_, _)
iter(keys, asc) ==
    IF keys = {} THEN <<>>
    ELSE LET first == CHOOSE k \in keys :
                 \A j \in keys : IF asc THEN Len(k) <= Len(j) ELSE Len(k) >= Len(j)
         IN <<first>> \o iter(keys \ {first}, asc)

\* Amf0Encoder::write_string_no_marker
write_string_no_marker(s) == u16_be(Len(s) % 65536) \o s

RECURSIVE encode(_, _)
RECURSIVE encode_entries(_, _, _)
encode_entries(map, keys, asc) ==
    IF keys = <<>> THEN <<>>
    ELSE write_string_no_marker(Head(keys)) \o encode(map[Head(keys)], asc)
             \o encode_entries(map, Tail(keys), asc)

RECURSIVE encode_items(_, _)
encode_items(items, asc) ==
    IF items = <<>> THEN <<>>
    ELSE encode(Head(items), asc) \o encode_items(Tail(items), asc)

\* Amf0Encoder::encode: the bytes appended to the buffer
encode(value, asc) ==
    CASE value.type = "Number" -> <<markers_NUMBER>> \o value.n
      [] value.type = "Boolean" -> <<markers_BOOLEAN, IF value.b THEN 1 ELSE 0>>
      [] value.type = "String" ->
            <<markers_STRING>> \o u16_be(Len(value.s) % 65536) \o value.s
      [] value.type = "Object" ->
            <<markers_OBJECT>>
                \o encode_entries(value.map, iter(DOMAIN value.map, asc), asc)
                \o u16_be(0) \o <<markers_OBJECT_END>>
      [] value.type = "Null" -> <<markers_NULL>>
      [] value.type = "Undefined" -> <<markers_UNDEFINED>>
      [] value.type = "EcmaArray" ->
            <<markers_ECMA_ARRAY>> \o u32_be(Cardinality(DOMAIN value.map))
                \o encode_entries(value.map, iter(DOMAIN value.map, asc), asc)
                \o u16_be(0) \o <<markers_OBJECT_END>>
      [] value.type = "Array" ->
            <<markers_STRICT_ARRAY>> \o u32_be(Len(value.items))
                \o encode_items(value.items, asc)
      [] value.type = "Date" -> <<markers_DATE>> \o value.n \o i16_be(value.tz)
      [] value.type = "LongString" ->
            <<markers_LONG_STRING>> \o u32_be(Len(value.s)) \o value.s

\* ByteBuffer reads at cursor pos (the first byte is at 1)
has_remaining(bytes, pos, len) == pos + len - 1 <= Len(bytes)
read_bytes(bytes, pos, len) == [k \in 1..len |-> bytes[pos + k - 1]]
read_u16_be(bytes, pos) == bytes[pos] * 256 + bytes[pos + 1]
read_u32_be(bytes, pos) ==
    ((bytes[pos] * 256 + bytes[pos + 1]) * 256 + bytes[pos + 2]) * 256 + bytes[pos + 3]
read_i16_be(bytes, pos) ==
    IF read_u16_be(bytes, pos) >= 32768 THEN read_u16_be(bytes, pos) - 65536
    ELSE read_u16_be(bytes, pos)

\* String::from_utf8 succeeds: of the bytes the encoder above can produce,
\* those below 128 (none of the others is followed by a continuation byte)
from_utf8_ok(s) == \A k \in 1..Len(s) : s[k] < 128

\* Err, and Ok(value) with the cursor after it
DecodeErr == [ok |-> FALSE]
Decoded(value, pos) == [ok |-> TRUE, value |-> value, pos |-> pos]

RECURSIVE decode(_, _)

\* after the value of a property has been decoded: insert it and go on
RECURSIVE decode_properties(_, _, _)
decode_property(bytes, name, r, map) ==
    IF ~r.ok THEN DecodeErr
    ELSE decode_properties(bytes, r.pos, insert(map, name, r.value))

\* the loop of decode_object and decode_ecma_array
decode_properties(bytes, pos, map) ==
    IF ~has_remaining(bytes, pos, 2) THEN DecodeErr
    ELSE IF read_u16_be(bytes, pos) = 0
    THEN IF ~has_remaining(bytes, pos + 2, 1) THEN DecodeErr
         ELSE Decoded(map, pos + 3)
    ELSE IF ~has_remaining(bytes, pos + 2, read_u16_be(bytes, pos)) THEN DecodeErr
    ELSE IF ~from_utf8_ok(read_bytes(bytes, pos + 2, read_u16_be(bytes, pos)))
    THEN DecodeErr
    ELSE decode_property(bytes, read_bytes(bytes, pos + 2, read_u16_be(bytes, pos)),
                         decode(bytes, pos + 2 + read_u16_be(bytes, pos)), map)

\* a decoded map as the value of the given type
Wrap(type, r) ==
    IF ~r.ok THEN DecodeErr ELSE Decoded([type |-> type, map |-> r.value], r.pos)

decode_object(bytes, pos) == Wrap("Object", decode_properties(bytes, pos, <<>>))

decode_ecma_array(bytes, pos) ==
    IF ~has_remaining(bytes, pos, 4) THEN DecodeErr
    ELSE Wrap("EcmaArray", decode_properties(bytes, pos + 4, <<>>))

\* the loop of decode_strict_array
RECURSIVE decode_elements(_, _, _, _)
decode_element(bytes, r, count, items) ==
    IF ~r.ok THEN DecodeErr
    ELSE decode_elements(bytes, r.pos, count - 1, Append(items, r.value))

decode_elements(bytes, pos, count, items) ==
    IF count = 0 THEN Decoded(Array(items), pos)
    ELSE decode_element(bytes, decode(bytes, pos), count, items)

decode_strict_array(bytes, pos) ==
    IF ~has_remaining(bytes, pos, 4) THEN DecodeErr
    ELSE decode_elements(bytes, pos + 4, read_u32_be(bytes, pos), <<>>)

decode_number(bytes, pos) ==
    IF ~has_remaining(bytes, pos, 8) THEN DecodeErr
    ELSE Decoded(Number(read_bytes(bytes, pos, 8)), pos + 8)

decode_boolean(bytes, pos) ==
    IF ~has_remaining(bytes, pos, 1) THEN DecodeErr
    ELSE Decoded(Boolean(bytes[pos] # 0), pos + 1)

decode_string(bytes, pos) ==
    IF ~has_remaining(bytes, pos, 2) THEN DecodeErr
    ELSE IF ~has_remaining(bytes, pos + 2, read_u16_be(bytes, pos)) THEN DecodeErr
    ELSE IF ~from_utf8_ok(read_bytes(bytes, pos + 2, read_u16_be(bytes, pos)))
    THEN DecodeErr
    ELSE Decoded(String(read_bytes(bytes, pos + 2, read_u16_be(bytes, pos))),
                 pos + 2 + read_u16_be(bytes, pos))

decode_date(bytes, pos) ==
    IF ~has_remaining(bytes, pos, 8) THEN DecodeErr
    ELSE IF ~has_remaining(bytes, pos + 8, 2) THEN DecodeErr
    ELSE Decoded(Date(read_bytes(bytes, pos, 8), read_i16_be(bytes, pos + 8)), pos + 10)

decode_long_string(bytes, pos) ==
    IF ~has_remaining(bytes, pos, 4) THEN DecodeErr
    ELSE IF ~has_remaining(bytes, pos + 4, read_u32_be(bytes, pos)) THEN DecodeErr
    ELSE IF ~from_utf8_ok(read_bytes(bytes, pos + 4, read_u32_be(bytes, pos)))
    THEN DecodeErr
    ELSE Decoded(LongString(read_bytes(bytes, pos + 4, read_u32_be(bytes, pos))),
                 pos + 4 + read_u32_be(bytes, pos))

\* Amf0Decoder::decode with the cursor at pos; the markers of the types
\* the encoder above never writes end in Err here
decode(bytes, pos) ==
    IF ~has_remaining(bytes, pos, 1) THEN DecodeErr
    ELSE CASE bytes[pos] = markers_NUMBER -> decode_number(bytes, pos + 1)
           [] bytes[pos] = markers_BOOLEAN -> decode_boolean(bytes, pos + 1)
           [] bytes[pos] = markers_STRING -> decode_string(bytes, pos + 1)
           [] bytes[pos] = markers_OBJECT -> decode_object(bytes, pos + 1)
           [] bytes[pos] = markers_NULL -> Decoded(Null, pos + 1)
           [] bytes[pos] = markers_UNDEFINED -> Decoded(Undefined, pos + 1)
           [] bytes[pos] = markers_ECMA_ARRAY -> decode_ecma_array(bytes, pos + 1)
           [] bytes[pos] = markers_STRICT_ARRAY -> decode_strict_array(bytes, pos + 1)
           [] bytes[pos] = markers_DATE -> decode_date(bytes, pos + 1)
           [] bytes[pos] = markers_LONG_STRING -> decode_long_string(bytes, pos + 1)
           [] OTHER -> DecodeErr

AmfInit ==
    /\ amf_value = Null
    /\ amf_asc = TRUE
    /\ amf_bytes = <<>>
    /\ amf_decoded = DecodeErr
    /\ amf_pc = "decoded"

\* a value is handed to a new Amf0Encoder
AmfValue(value, asc) ==
    /\ amf_pc = "decoded"
    /\ amf_value' = value
    /\ amf_asc' = asc
    /\ amf_bytes' = <<>>
    /\ amf_decoded' = DecodeErr
    /\ amf_pc' = "value"
    /\ UNCHANGED notAmf

\* encoder.encode(&value); encoder.get_bytes()
AmfEncode ==
    /\ amf_pc = "value"
    /\ amf_bytes' = encode(amf_value, amf_asc)
    /\ amf_pc' = "encoded"
    /\ UNCHANGED <<amf_value, amf_asc, amf_decoded>>
    /\ UNCHANGED notAmf

\* Amf0Decoder::new over the bytes, decode()
AmfDecode ==
    /\ amf_pc = "encoded"
    /\ amf_decoded' = decode(amf_bytes, 1)
    /\ amf_pc' = "decoded"
    /\ UNCHANGED <<amf_value, amf_asc, amf_bytes>>
    /\ UNCHANGED notAmf

AmfNext ==
    \/ \E value \in Amf0Values, asc \in BOOLEAN : AmfValue(value, asc)
    \/ AmfEncode
    \/ AmfDecode

\* ------------------------------------------------------------------------
\* Configuration builders (server/config.rs, client/config.rs)
\* ------------------------------------------------------------------------
Ports == {0, 1, 1935}
ConnectionLimits == {0, 1, 1000}
ConfigChunkSizes == {0, 100, 127, 128, 129, 4096, 65535, 65536, 65537, 100000}

\* ServerConfig::default and ClientConfig::default, the validated fields
ServerConfigDefault == [port |-> 1935, max_connections |-> 1000, chunk_size |-> 4096]
ClientConfigDefault == [chunk_size |-> 4096]

Building == "building"

\* validate with the lower limit of the chunk size off by one
config_validate_le(kind, config) ==
    IF kind = "server" /\ config.port = 0 THEN "Invalid port: 0"
    ELSE IF kind = "server" /\ config.max_connections = 0
    THEN "Invalid max_connections: 0"
    ELSE IF config.chunk_size <= 128 THEN "Chunk size must be at least 128"
    ELSE IF config.chunk_size > 65536 THEN "Chunk size must not exceed 65536"
    ELSE "Ok"

\* ServerConfig::validate and ClientConfig::validate: Ok or the message of
\* the Error::config returned
config_validate(kind, config) ==
    IF kind = "server" /\ config.port = 0 THEN "Invalid port: 0"
    ELSE IF kind = "server" /\ config.max_connections = 0
    THEN "Invalid max_connections: 0"
    ELSE IF config.chunk_size < 128 THEN "Chunk size must be at least 128"
    ELSE IF config.chunk_size > 65536 THEN "Chunk size must not exceed 65536"
    ELSE "Ok"

CfgInit ==
    /\ builder_kind = "server"
    /\ builder_config = ServerConfigDefault
    /\ build_result = Building

\* ServerConfig::builder() or ClientConfig::builder()
BuilderNew(kind) ==
    /\ build_result # Building
    /\ builder_kind' = kind
    /\ builder_config' = IF kind = "server" THEN ServerConfigDefault
                         ELSE ClientConfigDefault
    /\ build_result' = Building
    /\ UNCHANGED notCfg

\* ServerConfigBuilder::port
BuilderPort(port) ==
    /\ build_result = Building
    /\ builder_kind = "server"
    /\ builder_config' = [builder_config EXCEPT !.port = port]
    /\ UNCHANGED <<builder_kind, build_result>>
    /\ UNCHANGED notCfg

\* ServerConfigBuilder::max_connections
BuilderMaxConnections(max) ==
    /\ build_result = Building
    /\ builder_kind = "server"
    /\ builder_config' = [builder_config EXCEPT !.max_connections = max]
    /\ UNCHANGED <<builder_kind, build_result>>
    /\ UNCHANGED notCfg

\* ServerConfigBuilder::chunk_size and ClientConfigBuilder::chunk_size
BuilderChunkSize(size) ==
    /\ build_result = Building
    /\ builder_config' = [builder_config EXCEPT !.chunk_size = size]
    /\ UNCHANGED <<builder_kind, build_result>>
    /\ UNCHANGED notCfg

\* build(): self.config.validate()?; Ok(self.config)
Build ==
    /\ build_result = Building
    /\ build_result' = config_validate(builder_kind, builder_config)
    /\ UNCHANGED <<builder_kind, builder_config>>
    /\ UNCHANGED notCfg

ConfigNext ==
    \/ \E kind \in {"server", "client"} : BuilderNew(kind)
    \/ \E port \in Ports : BuilderPort(port)
    \/ \E max \in ConnectionLimits : BuilderMaxConnections(max)
    \/ \E size \in ConfigChunkSizes : BuilderChunkSize(size)
    \/ Build

\* the initial state of the parts added after the server
\* ------------------------------------------------------------------------
\* Message dispatcher (message/dispatcher.rs, protocol/command.rs)
\* ------------------------------------------------------------------------
MaxTypeHandlers == 2

\* the handlers that get registered, the message types they are registered
\* for and the command names they are registered under ("c" and "p")
Handlers == {1, 2}
HandlerTypes == {MSG_TYPE_AUDIO, MSG_TYPE_COMMAND_AMF0}
CommandNames == {<<99>>, <<112>>}

DispatchInit ==
    /\ handlers = [t \in HandlerTypes \cup {MSG_TYPE_VIDEO, MSG_TYPE_COMMAND_AMF3} |-> <<>>]
    /\ command_handlers = [n \in CommandNames |-> 0]
    /\ default_handler = 0
    /\ last_dispatch = [kind |-> "none"]

\* RtmpCommand::encode for a command without arguments: name, transaction
\* id, a Null command object
CommandPayload(name) ==
    encode(String(name), TRUE) \o encode(Number(<<63, 240, 0, 0, 0, 0, 0, 0>>), TRUE)
        \o encode(Null, TRUE)

\* rest of RtmpCommand::decode: the command object and the arguments, while
\* the decoder has bytes left
RECURSIVE decode_arguments(_, _)
decode_arguments(bytes, pos) ==
    IF ~has_remaining(bytes, pos, 1) THEN TRUE
    ELSE IF ~decode(bytes, pos).ok THEN FALSE
    ELSE decode_arguments(bytes, decode(bytes, pos).pos)

\* RtmpCommand::decode after the name: the transaction id must be a number
decode_transaction_id(bytes, name) ==
    IF ~decode(bytes, name.pos).ok THEN [ok |-> FALSE]
    ELSE IF decode(bytes, name.pos).value.type # "Number" THEN [ok |-> FALSE]
    ELSE IF ~decode_arguments(bytes, decode(bytes, name.pos).pos) THEN [ok |-> FALSE]
    ELSE [ok |-> TRUE, name |-> name.value.s]

\* RtmpCommand::decode: the name must be a string
command_decode(bytes) ==
    IF ~decode(bytes, 1).ok THEN [ok |-> FALSE]
    ELSE IF decode(bytes, 1).value.type # "String" THEN [ok |-> FALSE]
    ELSE decode_transaction_id(bytes, decode(bytes, 1))

\* the loop over the handlers of a message type: each is invoked in turn, and
\* the Err of one ends the loop with `?`
RECURSIVE handle_all_keep_going(_, _)
handle_all_keep_going(hs, failing) ==
    IF hs = <<>> THEN [invoked |-> <<>>, result |-> "Ok"]
    ELSE LET rest == handle_all_keep_going(Tail(hs), failing)
         IN [invoked |-> <<Head(hs)>> \o rest.invoked,
             result |-> IF Head(hs) \in failing THEN "Handler" ELSE rest.result]

RECURSIVE handle_all(_, _)
handle_all(hs, failing) ==
    IF hs = <<>> THEN [invoked |-> <<>>, result |-> "Ok"]
    ELSE IF Head(hs) \in failing THEN [invoked |-> <<Head(hs)>>, result |-> "Handler"]
    ELSE [invoked |-> <<Head(hs)>> \o handle_all(Tail(hs), failing).invoked,
          result |-> handle_all(Tail(hs), failing).result]

\* MessageDispatcher::dispatch_command
dispatch_command(packet, failing) ==
    LET command == command_decode(packet.payload) IN
    IF ~command.ok THEN [invoked |-> <<>>, result |-> "AmfDecode"]
    ELSE IF command.name \in DOMAIN command_handlers /\ command_handlers[command.name] # 0
    THEN handle_all(<<command_handlers[command.name]>>, failing)
    ELSE IF handlers[packet.header.message_type] # <<>>
    THEN handle_all(handlers[packet.header.message_type], failing)
    ELSE [invoked |-> <<>>, result |-> "Protocol"]

\* MessageDispatcher::dispatch
dispatch(packet, failing) ==
    IF packet.header.message_type \in {MSG_TYPE_COMMAND_AMF0, MSG_TYPE_COMMAND_AMF3}
    THEN dispatch_command(packet, failing)
    ELSE IF handlers[packet.header.message_type] # <<>>
    THEN handle_all(handlers[packet.header.message_type], failing)
    ELSE IF default_handler # 0 THEN handle_all(<<default_handler>>, failing)
    ELSE [invoked |-> <<>>, result |-> "Protocol"]

\* MessageDispatcher::register_handler
RegisterHandler(message_type, handler) ==
    /\ Len(handlers[message_type]) < MaxTypeHandlers
    /\ handlers' = [handlers EXCEPT ![message_type] = Append(@, handler)]
    /\ UNCHANGED <<command_handlers, default_handler, last_dispatch>>
    /\ UNCHANGED notDisp

\* MessageDispatcher::register_command: insert replaces the handler the name
\* had
RegisterCommand(command, handler) ==
    /\ command_handlers' = [command_handlers EXCEPT ![command] = handler]
    /\ UNCHANGED <<handlers, default_handler, last_dispatch>>
    /\ UNCHANGED notDisp

\* MessageDispatcher::set_default_handler
SetDefaultHandler(handler) ==
    /\ default_handler' = handler
    /\ UNCHANGED <<handlers, command_handlers, last_dispatch>>
    /\ UNCHANGED notDisp

\* a call of dispatch; failing are the handlers whose handle returns Err for
\* this packet
Dispatch(packet, failing) ==
    /\ last_dispatch' = [kind |-> "dispatch", packet |-> packet, failing |-> failing,
                         invoked |-> dispatch(packet, failing).invoked,
                         result |-> dispatch(packet, failing).result]
    /\ UNCHANGED <<handlers, command_handlers, default_handler>>
    /\ UNCHANGED notDisp

\* the payloads of the command messages dispatched: the two commands, a
\* command behind the one-byte format selector of an AMF3 command message, a
\* command cut short in its name, and a name without a transaction id
DispatchPayloads ==
    {CommandPayload(n) : n \in CommandNames}
        \cup {<<0>> \o CommandPayload(<<99>>), <<markers_STRING, 0, 1>>,
              encode(String(<<99>>), TRUE)}

DispatchPackets ==
    {make_audio_packet(AacRaw, 0, 1), make_video_packet(KeyFrame, 0, 1)}
        \cup {RtmpPacket(RtmpHeader(0, Len(payload), MSG_TYPE_COMMAND_AMF0, 0,
                                    CHUNK_STREAM_COMMAND), payload) :
                 payload \in DispatchPayloads}
        \cup {RtmpPacket(RtmpHeader(0, Len(payload), MSG_TYPE_COMMAND_AMF3, 0,
                                    CHUNK_STREAM_COMMAND), payload) :
                 payload \in {CommandPayload(<<99>>), <<0>> \o CommandPayload(<<99>>)}}

\* the handlers that fail on a packet: none or one of them
Failing == {{}} \cup {{h} : h \in Handlers}

DispatchNext ==
    \/ \E t \in HandlerTypes, h \in Handlers : RegisterHandler(t, h)
    \/ \E n \in CommandNames, h \in Handlers : RegisterCommand(n, h)
    \/ \E h \in Handlers : SetDefaultHandler(h)
    \/ \E packet \in DispatchPackets, failing \in Failing :
          Dispatch(packet, failing)

TailInit == SendInit /\ AmfInit /\ CfgInit /\ DispatchInit

\* ------------------------------------------------------------------------
\* Specifications
\* ------------------------------------------------------------------------
vars == <<regVars, pubVars, queueVars, chunkVars, connVars, srvVars, sendVars, amfVars, cfgVars, dispVars>>

\* publisher registry
Init == RegInit /\ PubInit(1) /\ QueueInit /\ ChunkInit(DEFAULT_CHUNK_SIZE, FALSE) /\ ConnInit /\ ServerInit /\ TailInit
Next == RegNext
Spec == Init /\ [][Next]_vars

\* command handlers of a connection, next to a registry in use
InitCmd == RegInit /\ PubInit(1) /\ QueueInit /\ ChunkInit(DEFAULT_CHUNK_SIZE, FALSE) /\ ConnInit /\ ServerInit /\ TailInit
NextCmd == CmdNext
SpecCmd == InitCmd /\ [][NextCmd]_vars

\* publisher fan-out and GOP cache
InitPub ==
    /\ RegInit /\ QueueInit /\ ChunkInit(DEFAULT_CHUNK_SIZE, FALSE) /\ ConnInit /\ ServerInit /\ TailInit
    /\ \E N \in 1..MaxGops : PubInit(N)
NextPub == PubNext
SpecPub == InitPub /\ [][NextPub]_vars

\* a GOP cache of any size called on its own
InitCache ==
    /\ RegInit /\ QueueInit /\ ChunkInit(DEFAULT_CHUNK_SIZE, FALSE) /\ ConnInit /\ ServerInit /\ TailInit
    /\ \E N \in 0..(MaxGops + 1) : PubInit(N)
NextCache == CacheNext
SpecCache == InitCache /\ [][NextCache]_vars

\* message queue of a connection
InitQueue == RegInit /\ PubInit(1) /\ QueueInit /\ ChunkInit(DEFAULT_CHUNK_SIZE, FALSE) /\ ConnInit /\ ServerInit /\ TailInit
NextQueue == QueueNext
SpecQueue == InitQueue /\ [][NextQueue]_vars

\* chunk writer feeding a chunk reader set to the same chunk size
InitChunk ==
    /\ RegInit /\ PubInit(1) /\ QueueInit /\ ConnInit /\ ServerInit /\ TailInit
    /\ \E csz \in ChunkSizes, checks \in BOOLEAN : ChunkInit(csz, checks)
NextChunk == ChunkNext
SpecChunk == InitChunk /\ [][NextChunk]_vars

\* the same, fed packets that differ in their headers
NextFmt == FmtNext
SpecFmt == InitChunk /\ [][NextFmt]_vars

\* a chunk reader fed the interleaved chunks of a peer
NextInterleave == InterleaveNext
SpecInterleave == InitChunk /\ [][NextInterleave]_vars


\* ------------------------------------------------------------------------

\* server handshake and life of one connection, next to a HandshakeState
\* given arbitrary events
InitHandshake ==
    /\ RegInit /\ PubInit(1) /\ QueueInit /\ ChunkInit(DEFAULT_CHUNK_SIZE, FALSE)
    /\ ConnInit /\ ServerInit /\ TailInit
NextHandshake == HandshakeNext
SpecHandshake == InitHandshake /\ [][NextHandshake]_vars

\* the scheduler runs every task that can take a step without waiting for
\* the peer
TaskFairness ==
    /\ WF_vars(WriteLoopReturn)
    /\ WF_vars(LoopCheck("read", "io"))
    /\ WF_vars(LoopCheck("process", "pop"))
    /\ WF_vars(\E ok \in BOOLEAN : LoopBody("process", "pop", ok))
    /\ WF_vars(ProcessServerHandshakeDone)
    /\ WF_vars(ProcessServerSelect)
    /\ WF_vars(WaitShutdownRecv)

\* the tasks of one connection from accept to exit
NextConn == ConnNext
SpecConn == InitHandshake /\ [][NextConn]_vars /\ TaskFairness

\* the accept loop and the spawned tasks keep running once they can take a
\* step; when a connection ends is up to its peer
ServerFairness ==
    /\ WF_vars(ListenCheckLimit)
    /\ WF_vars(ListenCheckIp)
    /\ WF_vars(HandleConnectionStore)
    /\ WF_vars(HandleConnectionSpawn)
    /\ \A c \in ConnIds : WF_vars(ConnectionDecrement(c))

\* the accept loop of the server and the connections it admits
NextAccept == AcceptNext
SpecAccept == InitHandshake /\ [][NextAccept]_vars

\* the same, with the registry the connections share
NextServer == ServerNext
SpecServer == InitHandshake /\ [][NextServer]_vars /\ ServerFairness

\* a Publisher inside send and a Player inside recv go on once they can
SessionFairness ==
    /\ WF_vars(DistStart)
    /\ WF_vars(DistSend)
    /\ \A s \in Subs : WF_vars(NextPacketReturn(s))

\* a connection that publishes and deletes its stream, its Publisher and
\* the Players subscribed to it
NextUnpublish == UnpublishNext
SpecUnpublish == InitHandshake /\ [][NextUnpublish]_vars /\ SessionFairness

\* connect commands handled on connections whose packet channel drains
NextConnect == ConnectNext
SpecConnect == InitHandshake /\ [][NextConnect]_vars

\* the connect handler of a connection next to the connection's chunk writer
NextAnnounce == AnnounceNext
SpecAnnounce == InitHandshake /\ [][NextAnnounce]_vars

\* play and deleteStream commands next to a registry in use
NextPlay == PlayNext
SpecPlay == InitHandshake /\ [][NextPlay]_vars


\* a dispatcher that is given handlers and packets in any order
NextDispatch == DispatchNext
SpecDispatch == InitHandshake /\ [][NextDispatch]_vars

\* values encoded and decoded again, one after the other
NextAmf == AmfNext
SpecAmf == InitHandshake /\ [][NextAmf]_vars

\* configurations built one after the other
NextConfig == ConfigNext
SpecConfig == InitHandshake /\ [][NextConfig]_vars

\* a chunk reader fed interleaved chunks, some of them without a base
NextReader == ReaderNext
SpecReader == InitChunk /\ [][NextReader]_vars

\* a writer and a reader whose chunk sizes are set at any time
NextChunkSize == ChunkSizeNext
SpecChunkSize == InitChunk /\ [][NextChunkSize]_vars

\* ------------------------------------------------------------------------
\* Claims about the connect, play and deleteStream handlers
\* ------------------------------------------------------------------------

\* the packets a connection was sent since the last command it received
SentSince(c) ==
    LET log == handler_log[c]
        last == CHOOSE i \in Commands(c) : \A j \in Commands(c) : j <= i
    IN [k \in 1..(Len(log) - last) |-> log[last + k].packet]

\* the packets a connection was sent between its i-th log entry, a command,
\* and the next command
SentAfter(c, i) ==
    LET log == handler_log[c]
        later == {j \in Commands(c) : j > i}
        end == IF later = {} THEN Len(log)
               ELSE (CHOOSE j \in later : \A k \in later : j <= k) - 1
    IN [k \in 1..(end - i) |-> log[i + k].packet]

IsPrefix(s, t) == Len(s) <= Len(t) /\ \A k \in 1..Len(s) : s[k] = t[k]

\* what the client is sent for a connect with the given transaction id
ConnectAnswer(transaction_id) ==
    <<[message_type |-> 5, size |-> 2500000, limit_type |-> 0,
       message_stream_id |-> 0, chunk_stream_id |-> 2],
      [message_type |-> 6, size |-> 2500000, limit_type |-> 2,
       message_stream_id |-> 0, chunk_stream_id |-> 2],
      [message_type |-> 1, size |-> 4096, limit_type |-> 0,
       message_stream_id |-> 0, chunk_stream_id |-> 2],
      [name |-> "_result", transaction_id |-> transaction_id,
       code |-> "NetConnection.Connect.Success", message_type |-> 20,
       message_stream_id |-> 0, chunk_stream_id |-> 3]>>

\* a connect command was just handled whose command object lacks app or
\* tcUrl
ConnectRefused(c) ==
    /\ Len(handler_log'[c]) = Len(handler_log[c]) + 1
    /\ handler_log'[c][Len(handler_log'[c])].dir = "in"
    /\ ~handler_log'[c][Len(handler_log'[c])].valid

\* C23: what a connection is sent after a connect command whose command
\* object has app and tcUrl is, in this order, WindowAcknowledgementSize
\* (2500000), SetPeerBandwidth(2500000, 2) and SetChunkSize(4096) on chunk
\* stream 2 and message stream 0, then _result with the transaction id of
\* the request and code NetConnection.Connect.Success: all of it once the
\* handler has returned Ok, a prefix of it before; after a connect whose
\* command object lacks app or tcUrl it is sent nothing, and handling such
\* a connect sets no property.
C23_ConnectSequence ==
    /\ [](\A c \in Conns : \A i \in Commands(c) :
            LET request == handler_log[c][i] IN
            IF ~request.valid THEN SentAfter(c, i) = <<>>
            ELSE /\ IsPrefix(SentAfter(c, i), ConnectAnswer(request.arg))
                 /\ (last_result[c].kind = "Ok" /\ \A j \in Commands(c) : j <= i)
                        => SentAfter(c, i) = ConnectAnswer(request.arg))
    /\ [][\A c \in Conns : ConnectRefused(c) =>
            /\ properties'[c] = properties[c]
            /\ outbound'[c] = outbound[c]]_vars

\* C23 witness: a connection was refused a connect that lacks tcUrl or app
\* and then answered a valid connect in full.
C23_Witness ==
    \E c \in Conns :
        /\ Cardinality(Commands(c)) = 2
        /\ ~handler_log[c][1].valid
        /\ handler_log[c][2].valid
        /\ Len(SentAfter(c, 2)) = 4
        /\ last_result[c].kind = "Ok"
        /\ properties[c].app # Absent

\* the SetChunkSize packets a connection has been sent
Announced(c) ==
    {handler_log[c][i].packet.size :
        i \in {j \in 1..Len(handler_log[c]) :
                  /\ handler_log[c][j].dir = "out"
                  /\ handler_log[c][j].packet.message_type = MSG_TYPE_SET_CHUNK_SIZE}}

\* C31: once the connect handler has sent SetChunkSize(4096) and returned,
\* every message the chunk writer of the connection writes is split at
\* chunk_size_out = 4096, the chunk size announced to the peer.
C31_WriterUsesAnnouncedChunkSize ==
    (4096 \in Announced(Publishing) /\ last_result[Publishing].cmd = "connect"
                                    /\ last_result[Publishing].kind = "Ok")
        => \A i \in 1..Len(written) : written[i].msg.csz = 4096

\* a play command reached the lookup of the publisher: it named a stream
\* and its connection had a stream id
PlayLookedUp(c) ==
    /\ last_result[c].cmd = "play"
    /\ last_result[c].code \notin {"Missing stream name", "No stream ID"}

\* C21: once a play command that names a stream with no registered
\* publisher has been handled, the client has been sent exactly an onStatus
\* NetStream.Play.StreamNotFound, no subscriber count has changed and the
\* connection has no playing or stream_name property.
C21_PlayUnknownStreamNotFound ==
    \A c \in Conns :
        (PlayLookedUp(c) /\ ~last_result[c].was_registered) =>
            /\ Len(SentSince(c)) = 1
            /\ SentSince(c)[1].name = "onStatus"
            /\ SentSince(c)[1].code = "NetStream.Play.StreamNotFound"
            /\ ~properties[c].playing
            /\ properties[c].stream_name = 0
            /\ last_result[c].entry_after = last_result[c].entry_before

\* C22: once a play command that names a registered stream has been
\* handled, the subscriber count of the stream's publisher is one higher
\* than before and the client has been sent exactly StreamBegin, onStatus
\* NetStream.Play.Reset, onStatus NetStream.Play.Start, |RtmpSampleAccess
\* (true, true) and onStatus NetStream.Data.Start, in this order.
C22_PlaySendsStatusSequence ==
    \A c \in Conns :
        (PlayLookedUp(c) /\ last_result[c].was_registered) =>
            /\ last_result[c].kind = "Ok"
            /\ last_result[c].entry_after.subscriber_count =
                   last_result[c].entry_before.subscriber_count + 1
            /\ SentSince(c) = create_play_status_messages(properties[c].stream_id)

\* a deleteStream command that carried a stream id was handled on a
\* connection that had a stream bound
DeletedBoundStream(c) ==
    /\ last_result[c].cmd = "deleteStream"
    /\ last_result[c].code # "Missing stream ID"
    /\ (last_result[c].kind = "Err" => properties[c].stream_id # 0)

\* C24: once deleteStream has been handled on a connection that had a
\* stream bound, the handler has returned Ok without a response, the
\* connection has no stream_id and no stream_name and neither publishes nor
\* plays, and the name it was publishing is no longer in the registry.
C24_DeleteStreamClearsBinding ==
    \A c \in Conns :
        DeletedBoundStream(c) =>
            /\ last_result[c].kind = "Ok"
            /\ properties[c].stream_id = 0
            /\ properties[c].stream_name = 0
            /\ ~properties[c].publishing
            /\ ~properties[c].playing
            /\ (last_result[c].code = "was publishing"
                    => last_result[c].entry_after = None)

\* ------------------------------------------------------------------------
\* Claims about AMF0 (checked under SpecAmf)
\* ------------------------------------------------------------------------

\* C25: decoding the bytes the encoder produced for a value (Number,
\* Boolean, String, LongString, Object, EcmaArray, strict Array, Date, Null,
\* Undefined, containers nested, keys possibly empty) succeeds, gives a
\* value equal to the one encoded, and leaves the cursor exactly behind the
\* bytes produced.
C25_AmfRoundTrip ==
    amf_pc = "decoded" /\ amf_bytes # <<>> =>
        /\ amf_decoded.ok
        /\ amf_decoded.value = amf_value
        /\ amf_decoded.pos = Len(amf_bytes) + 1

\* ------------------------------------------------------------------------
\* Claims about the configuration builders (checked under SpecConfig)
\* ------------------------------------------------------------------------

\* C26: build() of a ServerConfig builder returns Ok exactly when port > 0,
\* max_connections > 0 and 128 <= chunk_size <= 65536; build() of a
\* ClientConfig builder exactly when 128 <= chunk_size <= 65536; otherwise
\* it returns a configuration error.
C26_BuildValidates ==
    build_result # Building =>
        LET in_range == builder_config.chunk_size >= 128
                            /\ builder_config.chunk_size <= 65536
            valid == IF builder_kind = "server"
                     THEN builder_config.port > 0
                              /\ builder_config.max_connections > 0 /\ in_range
                     ELSE in_range
        IN /\ build_result = "Ok" <=> valid
           /\ build_result \in {"Ok", "Invalid port: 0", "Invalid max_connections: 0",
                                "Chunk size must be at least 128",
                                "Chunk size must not exceed 65536"}

\* C26 witness: a server configuration with the smallest port, connection
\* limit and chunk size that pass was built.
C26_Witness ==
    /\ build_result = "Ok"
    /\ builder_kind = "server"
    /\ builder_config = [port |-> 1, max_connections |-> 1, chunk_size |-> 128]

\* ------------------------------------------------------------------------
\* Claims about the registry and the publish handler (checked under Spec)
\* ------------------------------------------------------------------------

\* C1: of the register(name, ...) calls made for one stream name since the
\* last unregister, by any connections in any order, exactly one returned Ok
\* and every other returned Err; the registry holds a publisher for the name
\* exactly when one call succeeded, so never more than one per name.
C1_ExactlyOneRegisterSucceeds ==
    \A n \in Names :
        /\ reg_ok[n] <= 1
        /\ (reg_ok[n] + reg_err[n] >= 1 => reg_ok[n] = 1)
        /\ (publishers[n] # None <=> reg_ok[n] = 1)

\* C1 witness: two distinct connections called register for the same name,
\* one call succeeded and another was refused.
C1_Witness ==
    \E n \in Names :
        /\ Cardinality(reg_callers[n]) >= 2
        /\ reg_ok[n] = 1
        /\ reg_err[n] >= 1

\* C2: a publish command (on a connection that has a stream id and an open
\* outbound channel) naming a stream that another connection has registered
\* is answered with an onStatus whose code is NetStream.Publish.BadName,
\* returned as a response and not as an error that ends the processor, and
\* leaves the registry entry unchanged.
C2_DuplicatePublishAnsweredBadName ==
    \A c \in Conns :
        (/\ last_result[c].cmd = "publish"
         /\ last_result[c].code # "No stream ID"
         /\ last_result[c].code # "Failed to send packet"
         /\ last_result[c].was_registered
         /\ last_result[c].entry_before.connection_id # c)
        => /\ last_result[c].kind = "Ok"
           /\ last_result[c].code = "NetStream.Publish.BadName"
           /\ last_result[c].entry_after = last_result[c].entry_before

\* ------------------------------------------------------------------------
\* Claims about the publisher and the GOP cache (checked under SpecPub)
\* ------------------------------------------------------------------------
\* the subscriber distribute_packet is about to send to
DistTarget == subscribers[dist_i].id
AtFullLiveChannel ==
    /\ pub_pc = "dist"
    /\ rx_open[DistTarget]
    /\ Len(chan[DistTarget]) = SubChanCap

\* C3: fan-out never waits for a subscriber: whenever distribute_packet
\* stands at a subscriber whose channel is full and whose receiver is alive,
\* its send can complete at once, without that subscriber receiving.
C3_FanOutNeverWaits == AtFullLiveChannel => ENABLED DistSend

SameButStreamId(p, q) ==
    /\ p.payload = q.payload
    /\ p.header.timestamp = q.header.timestamp
    /\ p.header.message_length = q.header.message_length
    /\ p.header.message_type = q.header.message_type
    /\ p.header.chunk_stream_id = q.header.chunk_stream_id

ViaRank(via) ==
    CASE via = "meta" -> 1 [] via = "aac" -> 2 [] via = "avc" -> 3
      [] via = "gop" -> 4 [] OTHER -> 5

\* C5: what add_subscriber puts in the channel is, in this order and each
\* ingested packet at most once: the metadata packet, the AAC sequence
\* header, the AVC sequence header, the cached GOP frames in ingest order;
\* the AVC sequence header does not come a second time with the GOP frames.
C5_InitialPacketsOnceInOrder ==
    \A s \in Subs : \A i, j \in 1..Len(chan[s]) :
        LET a == chan[s][i]
            b == chan[s][j]
        IN (i < j /\ a.via # "live" /\ b.via # "live") =>
              /\ ViaRank(a.via) <= ViaRank(b.via)
              /\ a.origin # b.origin
              /\ (a.via = "gop" /\ b.via = "gop") => a.origin < b.origin

\* C6: the packets get_gop returns belong to at most max_gops GOPs.
C6_AtMostNGops == gop_count(TheCache) <= max_gops

\* C33: every completed GOP and the GOP in progress, if it is not empty,
\* begins with a keyframe; a non-keyframe is stored only behind a keyframe
\* that came before it; size() is the number of packets get_gop() returns.
C33_GopsBeginWithKeyframe ==
    /\ \A k \in 1..Len(cached_gops) :
          cached_gops[k] # <<>> /\ is_keyframe(cached_gops[k][1].payload)
    /\ current_gop # <<>> => is_keyframe(current_gop[1].payload)
    /\ \A k \in 1..Len(get_gop(TheCache)) :
          LET p == get_gop(TheCache)[k] IN
          ~is_keyframe(p.payload) =>
              \E j \in 1..(Origin(p) - 1) : is_keyframe(ingested[j].payload)
    /\ total_packets = Len(get_gop(TheCache))

\* C33 witness: a keyframe and a frame were stored, the cache was cleared,
\* the frame that came next was not stored, and the keyframe and the frame
\* after it are what the cache holds.
C33_Witness ==
    /\ max_gops >= 1
    /\ Len(ingested) = 5
    /\ is_keyframe(ingested[1].payload)
    /\ ~is_keyframe(ingested[3].payload)
    /\ ~is_keyframe(ingested[5].payload)
    /\ get_gop(TheCache) = <<ingested[4], ingested[5]>>
    /\ total_packets = 2

\* a send of distribute_packet is waiting for room in a subscriber's channel
LiveSendWaits == pub_pc = "dist" /\ ~send_ready(DistTarget)
\* a send of send_initial_packets is waiting for room in the new channel
ReplaySendWaits == \E s \in Subs : spc[s] = "gopsend" /\ gop_todo[s] # <<>>
\* add_subscriber has sent the initial packets and asks for the write lock of
\* the subscriber list
AtPush(s) == spc[s] = "gopsend" /\ gop_todo[s] = <<>>

\* C32: while a send into a subscriber channel is waiting, its task holds
\* neither the subscriber-list lock nor the GOP-cache lock, so that
\* add_subscriber can push its handle whatever the send is waiting for.
C32_NoLockHeldAcrossSend ==
    /\ LiveSendWaits => ~subscribers_read_locked
    /\ ReplaySendWaits => ~gop_read_locked
    /\ \A s \in Subs : (AtPush(s) /\ LiveSendWaits) => ENABLED AddSubPush(s)

\* ------------------------------------------------------------------------
\* Claims about the message queue (checked under SpecQueue)
\* ------------------------------------------------------------------------
\* C7: each pop takes, of the packets queued, one of the highest priority,
\* and of those the one pushed first.
C7_PopHighestPriorityFirst ==
    [][\A c \in QueueConns :
        (pop_item[c] = None /\ pop_item'[c] # None) =>
            \E i \in 1..Len(q_chan[c]) :
                /\ q_chan[c][i] = pop_item'[c]
                /\ \A k \in 1..Len(q_chan[c]) :
                    \/ q_chan[c][k].priority < q_chan[c][i].priority
                    \/ q_chan[c][k].priority = q_chan[c][i].priority /\ i <= k]_vars

\* packets pushed and not yet returned by a pop
Queued(c) == Len(q_chan[c]) + (IF pop_item[c] = None THEN 0 ELSE 1)

QueueWithinCapacity ==
    \A c \in QueueConns : Queued(c) <= max_size /\ current_size[c] = Queued(c)

PushContract(c) ==
    pushed'[c] # pushed[c] =>
        IF Queued(c) < max_size
        THEN /\ Len(q_chan'[c]) = Len(q_chan[c]) + 1
             /\ SubSeq(q_chan'[c], 1, Len(q_chan[c])) = q_chan[c]
             /\ reader_pc'[c] = reader_pc[c]
        ELSE /\ q_chan' = q_chan
             /\ current_size' = current_size
             /\ pop_item' = pop_item
             /\ reader_pc'[c] = "stopped"
             /\ \A d \in QueueConns \ {c} :
                    reader_pc'[d] = reader_pc[d] /\ conn_state'[d] = conn_state[d]

\* C8: a queue never holds more than max_size packets; a push with fewer than
\* max_size packets queued enqueues, any other push changes nothing in the
\* queue and stops the read loop of its own connection and of no other.
C8_FullQueueStopsReader ==
    /\ []QueueWithinCapacity
    /\ [][\A c \in QueueConns : PushContract(c)]_vars

C8_Witness ==
    \E c, d \in QueueConns :
        /\ reader_pc[c] = "stopped"
        /\ Queued(c) = max_size
        /\ reader_pc[d] = "running"
        /\ pushed[d] > 0

\* ------------------------------------------------------------------------
\* Claims about the chunk writer and reader (checked under SpecChunk, SpecFmt)
\* ------------------------------------------------------------------------
\* C9: the packets the reader returns are the packets written, one for one
\* and in order, each with the same header fields and payload bytes.
C9_RoundTrip ==
    /\ \A k \in 1..Len(read_out) :
        k <= Len(written) /\ read_out[k] = written[k].packet
    /\ (wire = <<>> /\ reader_st = "running") => Len(read_out) = Len(written)

\* the same for payloads below 2^24 bytes
C9_RoundTripBelow16M ==
    (\A k \in 1..Len(written) : written[k].packet.header.message_length <= EXT_TIMESTAMP) =>
        C9_RoundTrip

FirstFmt(msg) == msg.hdr[1] \div 64

SameAs(h, base, fields) ==
    /\ "timestamp" \in fields => h.timestamp = base.timestamp
    /\ "length" \in fields => h.message_length = base.message_length
    /\ "type" \in fields => h.message_type = base.message_type
    /\ "stream" \in fields => h.message_stream_id = base.message_stream_id

\* the fmt the rule of the claim gives
TightestFmt(h, base) ==
    IF base = None THEN 0
    ELSE IF SameAs(h, base, {"timestamp", "length", "type", "stream"}) THEN 3
    ELSE IF SameAs(h, base, {"length", "type", "stream"}) THEN 2
    ELSE IF SameAs(h, base, {"stream"}) THEN 1
    ELSE 0

\* C10: the first chunk of every packet written has the fmt the rule gives
\* for the last header written on its chunk stream id, on that chunk stream
\* id; the header before each further chunk is Type 3 on the same id.
C10_TightestFmt ==
    \A k \in 1..Len(written) :
        LET w == written[k]
            h == w.packet.header
        IN /\ FirstFmt(w.msg) = TightestFmt(h, w.base)
           /\ w.msg.hdr[1] % 64 = (IF h.chunk_stream_id <= 63 THEN h.chunk_stream_id ELSE 0)
           /\ w.msg.cont = encode_basic_header(3, h.chunk_stream_id)
           /\ w.msg.cont[1] \div 64 = 3

C10_Witness ==
    /\ \E k \in 1..Len(written) : FirstFmt(written[k].msg) = 1
    /\ \E k \in 1..Len(written) : NumCont(written[k].msg) > 0 /\ written[k].base # None

\* ------------------------------------------------------------------------
\* Claims about the chunk reader (checked under SpecInterleave)
\* ------------------------------------------------------------------------
\* C11: every packet the chunk reader has returned has a payload of exactly
\* header.message_length bytes, whatever the interleaving of the chunks of
\* different chunk streams
C11_PayloadLengthIsMessageLength ==
    \A k \in 1..Len(read_out) :
        payload_len(read_out[k].payload) = read_out[k].header.message_length

\* two chunks of one message were sent with a chunk of another chunk stream
\* between them, all chunks have been read, and the reader returned the
\* message in more than one piece
C11_Witness ==
    /\ wire = <<>>
    /\ \E i, j, k \in 1..Len(written) :
        /\ i < j /\ j < k
        /\ written[i].packet = written[k].packet
        /\ written[j].packet.header.chunk_stream_id # written[i].packet.header.chunk_stream_id
        /\ \E r \in 1..Len(read_out) :
            /\ read_out[r].header = written[i].packet.header
            /\ Len(read_out[r].payload) >= 2

\* ------------------------------------------------------------------------
\* Claims about extended timestamps (checked under SpecChunk)
\* ------------------------------------------------------------------------
\* the message header the writer put into the first chunk of a packet
FirstHeaderBytes(w) ==
    SubSeq(w.msg.hdr, Len(encode_basic_header(0, w.packet.header.chunk_stream_id)) + 1,
           Len(w.msg.hdr))

\* the first chunk carries 0xFFFFFF in its timestamp field, followed by the
\* 4-byte extended timestamp
UsedExtended(w) == has_extended(FirstFmt(w.msg), FirstHeaderBytes(w))

\* C29: when the first chunk of a packet written carries an extended
\* timestamp and the packet takes several chunks, what the writer puts
\* before every further chunk is the Type 3 basic header followed by the
\* same 4-byte extended timestamp.
C29_ExtendedTimestampInContinuations ==
    \A k \in 1..Len(written) :
        LET w == written[k] IN
        (UsedExtended(w) /\ NumCont(w.msg) > 0) =>
            w.msg.cont = encode_basic_header(3, w.packet.header.chunk_stream_id)
                             \o SubSeq(w.msg.hdr, Len(w.msg.hdr) - 3, Len(w.msg.hdr))

\* ------------------------------------------------------------------------
\* Claims about the chunk stream contexts (checked under SpecReader)
\* ------------------------------------------------------------------------
\* the next chunk to read is of Type 1, 2 or 3 on a chunk stream id for
\* which the reader has no previous header
OrphanChunkNext ==
    /\ reader_st = "running"
    /\ TotalLen(wire) - rpos >= 1
    /\ LET b == parse_basic_header(wire, rpos, WireByte(wire, rpos)) IN
        /\ b.fmt >= 1
        /\ b.cs_id \in DOMAIN chunk_streams => chunk_streams[b.cs_id].prev_header = None

\* a read_chunk call has returned
ChunkWasRead == written' = written /\ (wire' # wire \/ rpos' # rpos)

\* what holds of a chunk stream context between two read_chunk calls
ContextConsistent(ctx) ==
    /\ ctx.bytes_remaining = 0 <=> ctx.current_header = None
    /\ ctx.bytes_remaining > 0 =>
          payload_len(ctx.message_buffer) + ctx.bytes_remaining
              = ctx.current_header.message_length

\* C27: in every chunk stream context bytes_remaining is 0 exactly when no
\* message is in progress, and while one is being assembled the bytes in
\* message_buffer plus bytes_remaining are the message_length of its
\* header; a chunk of Type 1, 2 or 3 on a chunk stream id without a previous
\* header makes read_chunk fail and neither creates nor changes a context.
C27_ContextInvariants ==
    /\ [](\A cs_id \in DOMAIN chunk_streams : ContextConsistent(chunk_streams[cs_id]))
    /\ [][OrphanChunkNext /\ ChunkWasRead =>
            reader_st' = "failed" /\ chunk_streams' = chunk_streams]_vars

\* C27 witness: the reader failed on a chunk without a base while a message
\* of another chunk stream was partly assembled.
C27_Witness ==
    /\ reader_st = "failed"
    /\ \E cs_id \in DOMAIN chunk_streams :
        /\ chunk_streams[cs_id].bytes_remaining > 0
        /\ chunk_streams[cs_id].message_buffer # <<>>
    /\ \E k \in 1..Len(written) : written[k].base = None /\ FirstFmt(written[k].msg) >= 1

\* ------------------------------------------------------------------------
\* Claims about interleaved messages (checked under SpecInterleave)
\* ------------------------------------------------------------------------
\* the messages the peer has begun, each by the place of its first chunk
Messages == {k \in 1..Len(written) : written[k].first}

\* the place of the last chunk sent so far of the message begun at k
LastChunk(k) ==
    CHOOSE j \in 1..Len(written) :
        /\ written[j].packet = written[k].packet
        /\ \A i \in 1..Len(written) : written[i].packet = written[k].packet => i <= j

\* every chunk of the message begun at k has been sent
AllSent(k) == \A cs_id \in DOMAIN sending : sending[cs_id].packet # written[k].packet

RECURSIVE PayloadIs(_, _, _)
\* the pieces are the bytes from offset off on of the payload with the seed
PayloadIs(pieces, seed, off) ==
    IF pieces = <<>> THEN TRUE
    ELSE /\ Head(pieces).k = "data"
         /\ (Head(pieces).seed + Head(pieces).off) % 256 = (seed + off) % 256
         /\ PayloadIs(Tail(pieces), seed, off + Head(pieces).len)

\* where the reader returned the message begun at k: its header, and its
\* payload bytes in order
Emitted(k) ==
    {r \in 1..Len(read_out) :
        /\ read_out[r].header = written[k].packet.header
        /\ payload_len(read_out[r].payload) = payload_len(written[k].packet.payload)
        /\ PayloadIs(read_out[r].payload, written[k].packet.payload[1].seed, 0)}

\* C28: when a peer interleaves the chunks of messages on different chunk
\* stream ids, every packet the reader returns is one message whose chunks
\* were all sent, with the header and the payload bytes of that message and
\* of no other; no message is returned twice; the packets are returned in
\* the order in which the last chunks were sent, and once every chunk sent
\* has been read every message sent in full has been returned.
C28_InterleavedReassembly ==
    /\ \A r \in 1..Len(read_out) : \E k \in Messages : AllSent(k) /\ r \in Emitted(k)
    /\ \A k \in Messages : Cardinality(Emitted(k)) <= 1
    /\ \A k1, k2 \in Messages : \A r1 \in Emitted(k1), r2 \in Emitted(k2) :
            r1 < r2 => LastChunk(k1) < LastChunk(k2)
    /\ (wire = <<>> /\ reader_st = "running") =>
            \A k \in Messages : AllSent(k) => Emitted(k) # {}

\* C28 witness: two messages of three chunks each, on different chunk
\* stream ids, were sent with their chunks alternating, and both have been
\* returned.
C28_Witness ==
    /\ wire = <<>>
    /\ Len(read_out) = 2
    /\ \E a, b \in Messages :
        /\ written[a].packet.header.chunk_stream_id
               # written[b].packet.header.chunk_stream_id
        /\ a < b /\ b < LastChunk(a) /\ LastChunk(a) < LastChunk(b)
        /\ \E i \in (b + 1)..(LastChunk(b) - 1) : written[i].packet = written[a].packet
        /\ Emitted(a) # {} /\ Emitted(b) # {}
        /\ Len(read_out[1].payload) >= 3

\* ------------------------------------------------------------------------
\* Claims about the chunk sizes (checked under SpecChunkSize)
\* ------------------------------------------------------------------------
\* C30: the chunk size of the reader and the chunk size of the writer are
\* at least 128 and at most 65536 at all times: a set_chunk_size with a
\* size outside this range, 0 included, is not applied.
C30_ChunkSizesInRange ==
    /\ chunk_size_in >= 128 /\ chunk_size_in <= 65536
    /\ chunk_size_out >= 128 /\ chunk_size_out <= 65536

\* ------------------------------------------------------------------------
\* Claims about the handshake (checked under SpecHandshake)
\* ------------------------------------------------------------------------
\* the client sent a C0 of version 3 and a C2 that echoes the S1 written to
\* the socket, and server_handshake has returned
EchoedSentS1 ==
    /\ hs_pc \in {"ok", "err"}
    /\ c0c1 # None /\ c0c1.version = RTMP_VERSION
    /\ c2 # None /\ c2 = create_from_s1(s1_sent)

\* C12: a client that sends a valid C0C1 and then a C2 echoing the timestamp
\* and random of the S1 the server wrote is accepted: the handshake state is
\* Done, and once process_server has gone on the connection is Connected
C12_EchoOfSentS1Accepted ==
    EchoedSentS1 =>
        /\ hs_pc = "ok" /\ handshake_state = "Done"
        /\ ps_pc # "handshake" => c_state = "Connected"

\* the client sent a C0 of another version, or a C2 that differs from the S1
\* written to the socket, and server_handshake has returned
BadHandshakeInput ==
    /\ hs_pc \in {"ok", "err"}
    /\ \/ c0c1.version # RTMP_VERSION
       \/ /\ c2 # None
          /\ \/ c2.timestamp # s1_sent.s1_timestamp
             \/ c2.random_echo # s1_sent.s1_random

\* C13: a C0 of a version other than 3, or a C2 whose timestamp or random
\* differs from the S1 that was sent, makes the handshake fail; the connection
\* is then not Connected and has no reader, writer or processor task
C13_BadHandshakeFails ==
    BadHandshakeInput =>
        /\ hs_pc = "err"
        /\ c_state # "Connected"
        /\ tasks = NoTasks

\* the next state the claim gives for a state and an event
ClaimedTransition(state, event) ==
    IF state = "Uninitialized" /\ event = "ReceivedC0C1" THEN "SentS0S1S2"
    ELSE IF state = "SentS0S1S2" /\ event = "ReceivedC2" THEN "Done"
    ELSE "Failed"

\* C14: the machine moves Uninitialized -> SentS0S1S2 only on ReceivedC0C1 and
\* SentS0S1S2 -> Done only on ReceivedC2; every other state and event leaves
\* it in Failed
C14_OtherTransitionsFail ==
    [][events' # events =>
        machine' = ClaimedTransition(machine, events'[Len(events')])]_vars

\* ------------------------------------------------------------------------
\* Claims about the life of a connection (checked under SpecConn)
\* ------------------------------------------------------------------------
ConnectionStates ==
    {"Uninitialized", "Handshaking", "Connected", "Publishing", "Playing", "Closing", "Closed"}

\* the edges of Uninitialized -> Handshaking -> Connected ->
\* {Publishing | Playing} -> Closing -> Closed
ClaimedEdges ==
    { <<"Uninitialized", "Handshaking">>, <<"Handshaking", "Connected">>,
      <<"Connected", "Publishing">>, <<"Connected", "Playing">>,
      <<"Publishing", "Closing">>, <<"Playing", "Closing">>, <<"Closing", "Closed">> }

\* C15: every change of the connection's state follows an edge of the claimed
\* graph (no state skipped, none left backwards, Closed never left), and
\* can_transition_to accepts exactly these edges
C15_StateFollowsEdges ==
    /\ [][c_state' # c_state => <<c_state, c_state'>> \in ClaimedEdges]_vars
    /\ [](\A a, b \in ConnectionStates :
            can_transition_to(a, b) <=> <<a, b>> \in ClaimedEdges)

\* no task of the connection is running and process_server is not in select!
AllExited ==
    /\ \A t \in DOMAIN tasks : tasks[t] # "running"
    /\ ps_pc # "select"

\* C18: once close() has set the shutdown signal it stays set, and every task
\* of the connection that is running comes to exit
C18_ShutdownSeenByAll ==
    /\ [][shutdown_ch > 0 => shutdown_ch' > 0]_vars
    /\ [](closes > 0 /\ ps_pc = "select" => <>AllExited)

\* ------------------------------------------------------------------------
\* Claims about the server and its sessions (checked under SpecAccept,
\* SpecServer)
\* ------------------------------------------------------------------------
\* the name has an entry in the registry and the connection that registered
\* it has gone through its whole exit path
OwnerExited(n) ==
    /\ publishers[n] # None
    /\ conn_task[publishers[n].connection_id] = "done"

\* C16: once the connection that registered a stream name has exited, the
\* name is eventually removed from the publisher registry
C16_ExitUnregisters ==
    \A n \in Names : [](OwnerExited(n) => <>(publishers[n] = None))

\* the accept loop is at a limit check that the socket in hand fails
AtLimit ==
    \/ accept_pc = "check_limit" /\ Cardinality(connections) >= max_connections
    \/ accept_pc = "check_ip" /\ ip_counts[socket] >= max_connections_per_ip

\* C19: the table never holds more than max_connections connections, no ip
\* is counted, or present in the table, more than max_connections_per_ip
\* times, and a socket the accept loop finds at a limit is dropped without
\* a Connection
C19_LimitsHold ==
    /\ [](/\ Cardinality(connections) <= max_connections
          /\ \A ip \in Ips :
                /\ ip_counts[ip] <= max_connections_per_ip
                /\ Cardinality({c \in connections : conn_ip[c] = ip})
                      <= max_connections_per_ip)
    /\ [][AtLimit /\ accept_pc' # accept_pc =>
            /\ dropped' = dropped + 1
            /\ socket' = 0
            /\ connection_counter' = connection_counter
            /\ connections' = connections
            /\ ip_counts' = ip_counts]_vars

\* sockets were dropped with the table full and an ip at its limit, after a
\* connection had exited
C19_Witness ==
    /\ dropped >= 2
    /\ Cardinality(connections) = max_connections
    /\ \E ip \in Ips : ip_counts[ip] = max_connections_per_ip
    /\ \E c \in ConnIds : conn_task[c] = "done"

\* a connection's deleteStream has taken it out of Publishing
Unpublished ==
    \E c \in Conns :
        /\ last_result[c].cmd = "deleteStream"
        /\ last_result[c].kind = "Ok"
        /\ last_result[c].code = "was publishing"

\* C17: once the publishing connection has left Publishing, every subscriber
\* blocked in next_packet eventually returns from it, with a packet or with
\* the end of its channel
C17_SubscribersUnblock ==
    \A s \in Subs : [](Unpublished /\ player_pc[s] = "recv" => <>(player_pc[s] # "recv"))

\* ------------------------------------------------------------------------
\* Claims about createStream (checked under SpecCmd)
\* ------------------------------------------------------------------------
\* the stream ids bound on the context of a connection: its stream_id property
bound_ids(props, c) == IF props[c].stream_id = 0 THEN {} ELSE {props[c].stream_id}

\* C20: each createStream answers _result with an id that is not 0, that is 1
\* when it is the connection's first and larger than the connection's
\* earlier ids otherwise, and the ids the connection got before stay bound
\* on its context
C20_FreshStreamIds ==
    [][\A c \in Conns :
         next_stream_id' # next_stream_id /\ properties'[c] # properties[c] =>
             /\ last_result'[c].cmd = "createStream"
             /\ last_result'[c].code = "_result"
             /\ properties'[c].stream_id # 0
             /\ bound_ids(properties, c) = {} => properties'[c].stream_id = 1
             /\ \A old \in bound_ids(properties, c) :
                   /\ properties'[c].stream_id > old
                   /\ old \in bound_ids(properties', c)]_vars

\* ---- the message dispatcher ----
IsCommandMessage(packet) ==
    packet.header.message_type \in {MSG_TYPE_COMMAND_AMF0, MSG_TYPE_COMMAND_AMF3}
\* the payload is a whole command: a name, a transaction id, a command object
WellFormedCommand(packet) == \E n \in CommandNames : packet.payload = CommandPayload(n)
NamedHandler(packet) ==
    IF \E n \in CommandNames : packet.payload = CommandPayload(n) /\ command_handlers[n] # 0
    THEN <<command_handlers[CHOOSE n \in CommandNames : packet.payload = CommandPayload(n)]>>
    ELSE <<>>
\* the handlers a command message is for: the one of its name, else those of
\* its message type
CommandTargets(packet) ==
    IF NamedHandler(packet) # <<>> THEN NamedHandler(packet)
    ELSE handlers[packet.header.message_type]
\* the handlers any other message is for: those of its message type, else the
\* default handler
TypeTargets(packet) ==
    IF handlers[packet.header.message_type] # <<>> THEN handlers[packet.header.message_type]
    ELSE IF default_handler # 0 THEN <<default_handler>>
    ELSE <<>>
Undecodable(packet) == IsCommandMessage(packet) /\ ~WellFormedCommand(packet)
Targets(packet) ==
    IF Undecodable(packet) THEN <<>>
    ELSE IF IsCommandMessage(packet) THEN CommandTargets(packet)
    ELSE TypeTargets(packet)
NoneFails(hs, failing) == \A i \in 1..Len(hs) : hs[i] \notin failing

\* C34 (as amended): a command message whose payload decodes goes to the
\* handler registered for its name, else to the handlers of its message
\* type; any other message goes to the handlers of its message type, else to
\* the default handler. The handlers are invoked in registration order up to
\* and including the first that returns an error, which is what dispatch
\* returns; dispatch returns Ok when all of them returned Ok. A command
\* message whose payload does not decode reaches no handler and dispatch
\* returns the decode error; with no handler to go to, dispatch returns a
\* protocol error and invokes no handler.
C34_DispatchUntilFirstError ==
    [][last_dispatch' # last_dispatch =>
        /\ IsPrefix(last_dispatch'.invoked, Targets(last_dispatch'.packet))
        /\ NoneFails(SubSeq(last_dispatch'.invoked, 1, Len(last_dispatch'.invoked) - 1),
                     last_dispatch'.failing)
        /\ last_dispatch'.result = "Ok" <=>
              /\ Targets(last_dispatch'.packet) # <<>>
              /\ last_dispatch'.invoked = Targets(last_dispatch'.packet)
              /\ NoneFails(last_dispatch'.invoked, last_dispatch'.failing)
        /\ last_dispatch'.result = "Handler" <=>
              /\ last_dispatch'.invoked # <<>>
              /\ last_dispatch'.invoked[Len(last_dispatch'.invoked)] \in last_dispatch'.failing
        /\ last_dispatch'.result = "AmfDecode" <=> Undecodable(last_dispatch'.packet)
        /\ last_dispatch'.result = "Protocol" <=>
              /\ ~Undecodable(last_dispatch'.packet)
              /\ Targets(last_dispatch'.packet) = <<>>]_vars

\* C34 witness: a command named "c" was dispatched with handler 1 registered
\* for the name and handlers 2 and 1 for AMF0 commands, and only handler 1
\* was invoked, once; and handler 2 fails.
C34_Witness ==
    /\ last_dispatch.kind = "dispatch"
    /\ last_dispatch.packet.header.message_type = MSG_TYPE_COMMAND_AMF0
    /\ last_dispatch.packet.payload = CommandPayload(<<99>>)
    /\ command_handlers[<<99>>] = 1
    /\ handlers[MSG_TYPE_COMMAND_AMF0] = <<2, 1>>
    /\ last_dispatch.failing = {2}
    /\ last_dispatch.invoked = <<1>>
    /\ last_dispatch.result = "Ok"

\* C34 as stated: every command message goes to the handler of its name, else
\* to the handlers of its message type; every other message goes to all
\* handlers of its message type, else to the default handler; a message that
\* has no handler to go to invokes none.
C34_DispatchToAll ==
    [][last_dispatch' # last_dispatch =>
          last_dispatch'.invoked = Targets(last_dispatch'.packet)]_vars

\* ---- the subscriber count of the registry ----
\* the connections that hold the playing property for the stream
PlayingConnections(n) ==
    {c \in Conns : properties[c].playing /\ properties[c].stream_name = n}
\* the connection's last command was a play of the stream, sent with a
\* stream id bound while the stream had a registered publisher
PlayedRegistered(c, n) ==
    /\ PlayLookedUp(c)
    /\ last_result[c].name = n
    /\ last_result[c].was_registered

AddSubscriberRunning(s) == spc[s] \in {"aac", "avc", "gop", "gopsend"}
\* the send add_subscriber is at finds the channel full
InitialSendWaits(s) ==
    \/ spc[s] = "aac" /\ audio_codec_config # None /\ ~send_ready(s)
    \/ spc[s] = "avc" /\ video_codec_config # None /\ ~send_ready(s)
    \/ spc[s] = "gopsend" /\ gop_todo[s] # <<>>

\* C36: add_subscriber never waits for room in the channel of the new
\* subscriber, whose receiver is handed out only when add_subscriber
\* returns: no send of an initial packet finds the channel full.
C36_AddSubscriberNeverWaits ==
    \A s \in Subs : AddSubscriberRunning(s) => ~InitialSendWaits(s)

\* ---- packets ingested while add_subscriber runs ----
IsVideo(p) == p.header.message_type = MSG_TYPE_VIDEO
\* the origins of the packets send_initial_packets of s has sent or has yet
\* to send
ReplayOrigins(s) ==
    {chan[s][i].origin : i \in 1..Len(chan[s])}
        \cup {Origin(gop_todo[s][i]) : i \in 1..Len(gop_todo[s])}
\* distribute_packet has read the subscriber list for the packet in cur_pkt
FanOutDecided == cur_pkt # None /\ pub_pc \in {"dist", "idle"}
\* s is in the replay of add_subscriber, after get_gop; the video packet in
\* cur_pkt entered the GOP cache after that get_gop and its fan-out has read
\* a subscriber list without s
MissedBy(s) ==
    /\ spc[s] = "gopsend"
    /\ FanOutDecided
    /\ IsVideo(cur_pkt)
    /\ \E i \in 1..Len(get_gop(TheCache)) : get_gop(TheCache)[i] = cur_pkt
    /\ Origin(cur_pkt) \notin ReplayOrigins(s)
\* the packets s is sent by the replay and by the live fan-out come in ingest
\* order, none twice
ReplayThenLiveInOrder(s) ==
    \A i, j \in 1..Len(chan[s]) :
        (i < j /\ chan[s][i].via \in {"gop", "live"} /\ chan[s][j].via \in {"gop", "live"})
            => chan[s][i].origin < chan[s][j].origin

\* C37: a video packet that process_video handles while add_subscriber runs
\* for a subscriber reaches the subscriber exactly once, by the GOP replay
\* or by the live fan-out, and in ingest order: none is missed and none is
\* sent twice.
C37_IngestDuringJoinOnce ==
    \A s \in Subs : ~MissedBy(s) /\ ReplayThenLiveInOrder(s)

\* ---- the tasks of a connection and the end of process_server ----
ReaderOrProcessorRuns == tasks.read = "running" \/ tasks.process = "running"

\* C38: while the read loop or the process loop of a connection is running,
\* process_server has not returned (the server takes the connection out of
\* its table and lowers the ip count as soon as it returns), and the state
\* of a connection nobody has called close on is not Closed.
C38_ClosedOnlyAfterTasksStopped ==
    ReaderOrProcessorRuns =>
        /\ ps_pc # "returned"
        /\ closes = 0 => c_state # "Closed"

\* ---- close called again ----
\* nothing is left that takes a message out of the shutdown channel: the
\* read loop and the process loop have ended and process_server has left
\* its select!
NoShutdownReceiver ==
    /\ tasks.read = "done"
    /\ tasks.process = "done"
    /\ ps_pc = "returned"

\* C39: a call of close returns: its send into the shutdown channel finds
\* room, or something is left that will take the message that fills the
\* channel. This includes a second close and a close after the tasks of the
\* connection have ended.
C39_CloseReturns ==
    (closes < MaxCloses /\ ~ENABLED Close) => ~NoShutdownReceiver

\* ---- a timestamp lower than the one before ----
\* the k-th packet written followed, on its chunk stream id, a packet of the
\* same message stream id with a higher timestamp
AfterHigherTimestamp(k) ==
    /\ written[k].base # None
    /\ written[k].base.message_stream_id = written[k].packet.header.message_stream_id
    /\ written[k].packet.header.timestamp < written[k].base.timestamp

\* C40: a packet whose timestamp is lower than that of the packet before it
\* on the same chunk stream id and message stream id is written - the
\* subtraction that computes the delta does not abort the writer - and the
\* reader returns it with the timestamp it was written with.
C40_LowerTimestampRoundTrip ==
    /\ writer_pc # "panicked"
    /\ \A k \in 1..Len(read_out) :
          (k <= Len(written) /\ AfterHigherTimestamp(k)) =>
              read_out[k].header.timestamp = written[k].packet.header.timestamp

====
